---------------------------- MODULE Spec2Model ----------------------------
(***************************************************************************)
(* Model of two parts of the node:                                         *)
(*   - the certificate custom fields of src/sc/sidechaintypes.cpp          *)
(*     (FieldElementCertificateField, BitVectorCertificateField and their  *)
(*     configs), checked under SpecField;                                  *)
(*   - the getblocktemplate handler of src/rpc/mining.cpp with its static  *)
(*     template cache and its long-poll wait, checked under SpecGbt.       *)
(***************************************************************************)
EXTENDS Integers, Sequences, FiniteSets, TLC

VARIABLES
    \* ---- custom certificate field (sidechaintypes.cpp) ----
    field,      \* the field object: variant, vRawData, pReferenceCfg, state, fieldElement
    call,       \* the last GetFieldElement/IsValid call: argument, result, what it ran
                \* (or the start-up call of CheckTypeSizes and the sizes it read)
    aborted,    \* TRUE once an assert of the code has failed (the process is gone)
    \* ---- node state read by getblocktemplate (mining.cpp) ----
    tip,                       \* chainActive.Tip(): the best block (a block is named by its height)
    mempoolUpdated,            \* mempool.GetTransactionsUpdated()
    vNodesEmpty,               \* vNodes.empty()
    fIBD,                      \* IsInitialBlockDownload()
    minerAddress,              \* a coinbase destination is configured (-mineraddress or a wallet)
    fRPCRunning,               \* IsRPCRunning()
    \* ---- the statics of getblocktemplate ----
    pindexPrev,                \* static CBlockIndex* pindexPrev (NullIndex when NULL)
    nStart,                    \* static int64_t nStart (on the scale of GetTime below)
    pblocktemplate,            \* static CBlockTemplate* pblocktemplate (NoTemplate when NULL)
    nTransactionsUpdatedLast,  \* static unsigned int nTransactionsUpdatedLast
    \* ---- the block index ----
    mapBlockIndex,             \* mapBlockIndex: the entry of every block hash
    \* ---- the request handler threads ----
    csMain,                    \* the thread holding cs_main (NoThread when free)
    pc,                        \* where each thread is in getblocktemplate
    req,                       \* the locals of each thread's call
    aMutable,                  \* static UniValue aMutable
    result                     \* the outcome of the call completed last, forgotten when
                               \* the tip or the mempool changes afterwards

fieldVars == <<field, call, aborted>>

envVars ==
    <<tip, mempoolUpdated, vNodesEmpty, fIBD, minerAddress, fRPCRunning, mapBlockIndex>>

cacheVars == <<pindexPrev, nStart, pblocktemplate, nTransactionsUpdatedLast>>

gbtVars == <<envVars, cacheVars, aMutable, csMain, pc, req, result>>

vars == <<fieldVars, gbtVars>>

(***************************************************************************)
(*                     Sizes and sampled input values                      *)
(***************************************************************************)
\* bits per byte, as used by the padding check
CHAR_BIT == 8

\* Byte size of a field element.  The node uses 32; the model uses a small
\* size so that every buffer can be enumerated.
SC_FIELD_SIZE == 2

\* Expected size of an uncompressed bit vector (scaled like SC_FIELD_SIZE).
SC_BV_SIZE_IN_BYTES == 2

\* Raw data of a field is any sequence of at most MaxRawLen sampled bytes.
MaxRawLen == SC_FIELD_SIZE + 1

\* 0x00, 0x01, 0x02, 0x10, 0xff
ByteSamples == {0, 1, 2, 16, 255}

RECURSIVE SeqsUpTo(_, _)
SeqsUpTo(S, n) ==
    IF n = 0 THEN {<< >>}
    ELSE LET shorter == SeqsUpTo(S, n - 1)
         IN  shorter \cup {Append(s, b) : s \in {x \in shorter : Len(x) = n - 1}, b \in S}

RawDataSet == SeqsUpTo(ByteSamples, MaxRawLen)

RECURSIVE Pow2(_)
Pow2(n) == IF n <= 0 THEN 1 ELSE 2 * Pow2(n - 1)

(***************************************************************************)
(*                              CFieldElement                              *)
(***************************************************************************)
\* CFieldElement{}: the empty byte vector (CZendooCctpObject::IsNull)
NullFieldElement == << >>

IsNull(fe) == Len(fe) = 0

ByteSize == SC_FIELD_SIZE

BitSize == ByteSize * CHAR_BIT

\* The modulus of the scalar field: below 256^ByteSize, with the two top bits
\* of the last byte free (as the node's 255-bit field in 32 bytes).
FieldModulus == Pow2(BitSize - 2) + 1

\* The integer a serialized field element stands for (little-endian bytes).
RECURSIVE LEValue(_)
LEValue(buf) ==
    IF Len(buf) = 0 THEN 0 ELSE Head(buf) + 256 * LEValue(Tail(buf))

\* zendoo_deserialize_field: non-null exactly for the canonical encodings
zendoo_deserialize_field(buf) ==
    Len(buf) = ByteSize /\ LEValue(buf) < FieldModulus

\* CFieldElement::IsValid
CFieldElement_IsValid(fe) ==
    IF Len(fe) = 0 THEN FALSE ELSE zendoo_deserialize_field(fe)

(***************************************************************************)
(*                          Custom field configs                           *)
(***************************************************************************)
\* FieldElementCertificateFieldConfig(nBitsIn)
FeCfg(nBits) == [kind |-> "FieldElementCfg", nBits |-> nBits]

\* BitVectorCertificateFieldConfig(bitVectorSizeBits, maxCompressedSizeBytes)
BvCfg(bits, maxBytes) ==
    [kind |-> "BitVectorCfg", bitVectorSizeBits |-> bits, maxCompressedSizeBytes |-> maxBytes]

FeCfgSet == {FeCfg(n) : n \in (-1)..(BitSize + 1)}

BvCfgSet ==
    {BvCfg(b, m) : b \in {SC_BV_SIZE_IN_BYTES * CHAR_BIT, 2 * SC_BV_SIZE_IN_BYTES * CHAR_BIT},
                   m \in (-1)..MaxRawLen}

\* FieldElementCertificateFieldConfig::IsValid
FieldElementCertificateFieldConfig_IsValid_NoUpperBound(cfg) == cfg.nBits > 0

FieldElementCertificateFieldConfig_IsValid(cfg) ==
    cfg.nBits > 0 /\ cfg.nBits <= ByteSize * 8

\* Largest accepted bit vector size and compressed size (scaled: the smallest
\* size divisible by 254 and by 8 is 1016).
MAX_BIT_VECTOR_SIZE_BITS == 2500

MAX_COMPRESSED_SIZE_BYTES == 300

\* BitVectorCertificateFieldConfig::IsValid
BitVectorCertificateFieldConfig_IsValid_Only254(cfg) ==
    IF ~(cfg.bitVectorSizeBits > 0 /\ cfg.bitVectorSizeBits <= MAX_BIT_VECTOR_SIZE_BITS)
    THEN FALSE
    ELSE IF cfg.bitVectorSizeBits % 254 # 0
    THEN FALSE
    ELSE cfg.maxCompressedSizeBytes > 0
            /\ cfg.maxCompressedSizeBytes <= MAX_COMPRESSED_SIZE_BYTES

BitVectorCertificateFieldConfig_IsValid(cfg) ==
    IF ~(cfg.bitVectorSizeBits > 0 /\ cfg.bitVectorSizeBits <= MAX_BIT_VECTOR_SIZE_BITS)
    THEN FALSE
    ELSE IF (cfg.bitVectorSizeBits % 254 # 0) \/ (cfg.bitVectorSizeBits % 8 # 0)
    THEN FALSE
    ELSE cfg.maxCompressedSizeBytes > 0
            /\ cfg.maxCompressedSizeBytes <= MAX_COMPRESSED_SIZE_BYTES

\* the range of int32_t
INT32_MAX == 2147483647

INT32_MIN == (-INT32_MAX) - 1

\* sampled int32_t arguments of the config constructors
BitSizeInputs ==
    {INT32_MIN, INT32_MAX} \cup ((-1)..(ByteSize * 8 + 1))

BitVectorSizeInputs ==
    {INT32_MIN, -1016, -1, 0, 1, 8, 254, 508, 1016, 2032, 3048,
     MAX_BIT_VECTOR_SIZE_BITS, MAX_BIT_VECTOR_SIZE_BITS + 1, INT32_MAX}

CompressedSizeInputs ==
    {INT32_MIN, -1, 0, 1, MAX_COMPRESSED_SIZE_BYTES, MAX_COMPRESSED_SIZE_BYTES + 1, INT32_MAX}

\* operator== of the configs: value equality
CfgEqual(a, b) == a = b


\* getBytesFromBits(nbits, reminder): the bytes needed for nbits bits and the
\* number of bits used in the last byte (0 when the last byte is full)
getBytesFromBits(nbits) ==
    IF nbits <= 0 THEN [bytes |-> 0, rem |-> 0]
    ELSE [bytes |-> (nbits + CHAR_BIT - 1) \div CHAR_BIT, rem |-> nbits % CHAR_BIT]

\* getTrailingZeroBitsInByte(inputByte): CHAR_BIT for the zero byte
RECURSIVE getTrailingZeroBitsInByte(_)
getTrailingZeroBitsInByte(b) ==
    IF b = 0 THEN CHAR_BIT
    ELSE IF b % 2 = 1 THEN 0
    ELSE 1 + getTrailingZeroBitsInByte(b \div 2)

(***************************************************************************)
(*                      FieldElementCertificateField                       *)
(***************************************************************************)
\* a null pReferenceCfg
nullptr == [kind |-> "nullptr"]

\* FieldElementCertificateField(rawBytes) / BitVectorCertificateField(rawBytes)
NewField(variant, rawBytes) ==
    [variant       |-> variant,
     vRawData      |-> rawBytes,
     pReferenceCfg |-> nullptr,
     state         |-> "NOT_INITIALIZED",
     fieldElement  |-> NullFieldElement]

\* What one call of GetFieldElement does: the object afterwards, the element
\* returned, whether an assert failed, whether validation ran and how many
\* calls into the cryptographic library it made.
Outcome(f, ret, abort, validated, libCalls) ==
    [field |-> f, ret |-> ret, aborted |-> abort, validated |-> validated, libCalls |-> libCalls]

\* the memoization test: "state != NOT_INITIALIZED" and "*pReferenceCfg == cfg"
CacheHit_Never(f, cfg) == FALSE

CacheHit_AnyCfg(f, cfg) == f.state # "NOT_INITIALIZED"

CacheHit(f, cfg) ==
    f.state # "NOT_INITIALIZED" /\ CfgEqual(f.pReferenceCfg, cfg)

\* "numbOfZeroBits < (CHAR_BIT - rem)": too few zero bits in the last byte
PaddingCheckFails_Swapped(numbOfZeroBits, rem) == numbOfZeroBits < rem

PaddingCheckFails(numbOfZeroBits, rem) == numbOfZeroBits < (CHAR_BIT - rem)

\* extendedRawData: vRawData with ByteSize()-size zero bytes inserted in front
ExtendedRawData(raw) ==
    [i \in 1..(ByteSize - Len(raw)) |-> 0] \o raw

\* the validation of FieldElementCertificateField::GetFieldElement, run on an
\* object whose state is INVALID, fieldElement null and pReferenceCfg == cfg
FE_Validate(f, cfg) ==
    LET g == [f EXCEPT !.state = "INVALID", !.fieldElement = NullFieldElement,
                       !.pReferenceCfg = cfg]
        bb == getBytesFromBits(cfg.nBits)
    IN  IF ~(cfg.nBits <= BitSize)
        THEN Outcome(g, NullFieldElement, TRUE, TRUE, 0)      \* assert fails
        ELSE IF Len(f.vRawData) # bb.bytes
        THEN Outcome(g, NullFieldElement, FALSE, TRUE, 0)
        ELSE IF bb.rem # 0
                /\ PaddingCheckFails(
                       getTrailingZeroBitsInByte(f.vRawData[Len(f.vRawData)]), bb.rem)
        THEN Outcome(g, NullFieldElement, FALSE, TRUE, 0)
        ELSE LET ext == ExtendedRawData(f.vRawData)
             IN  IF CFieldElement_IsValid(ext)
                 THEN Outcome([g EXCEPT !.state = "VALID", !.fieldElement = ext],
                              ext, FALSE, TRUE, 1)
                 ELSE Outcome(g, NullFieldElement, FALSE, TRUE, 1)

\* FieldElementCertificateField::GetFieldElement(cfg)
FE_GetFieldElement(f, cfg) ==
    IF f.state # "NOT_INITIALIZED" /\ f.pReferenceCfg = nullptr
    THEN Outcome(f, NullFieldElement, TRUE, FALSE, 0)         \* assert fails
    ELSE IF CacheHit(f, cfg)
    THEN Outcome(f, f.fieldElement, FALSE, FALSE, 0)
    ELSE FE_Validate(f, cfg)

(***************************************************************************)
(*                        BitVectorCertificateField                        *)
(***************************************************************************)
\* "vRawData.size() > cfg.getMaxCompressedSizeBytes()": size_t against int32_t.
\* The int32_t operand is converted to size_t, so a negative bound becomes a
\* value above every possible vector size.
SizeAboveMax(size, maxCompressedSizeBytes) ==
    IF maxCompressedSizeBytes < 0 THEN FALSE ELSE size > maxCompressedSizeBytes

\* The library's bit vector encoding: a first byte naming the algorithm
\* (0: stored, 1: run length, a count and a byte), then the payload.
Uncompress(raw) ==
    IF Len(raw) = 0 THEN [ok |-> FALSE, bytes |-> << >>]
    ELSE IF raw[1] = 0 THEN [ok |-> TRUE, bytes |-> Tail(raw)]
    ELSE IF raw[1] = 1 /\ Len(raw) = 3
         THEN [ok |-> TRUE, bytes |-> [i \in 1..raw[2] |-> raw[3]]]
    ELSE [ok |-> FALSE, bytes |-> << >>]

RECURSIVE ByteSum(_)
ByteSum(bytes) ==
    IF Len(bytes) = 0 THEN 0 ELSE Head(bytes) + 3 * ByteSum(Tail(bytes))

\* the Merkle root of an uncompressed bit vector, a canonical field element
MerkleRootOfBitVector(bytes) ==
    [i \in 1..ByteSize |-> IF i = 1 THEN (ByteSum(bytes) + 1) % 256 ELSE 0]

\* zendoo_merkle_root_from_compressed_bytes(compressedData, expectedSize, &ret):
\* nullptr (here the null element) on corrupt data or a wrong uncompressed size
zendoo_merkle_root_from_compressed_bytes(raw, expectedSize) ==
    LET u == Uncompress(raw)
    IN  IF u.ok /\ Len(u.bytes) = expectedSize
        THEN MerkleRootOfBitVector(u.bytes)
        ELSE NullFieldElement

\* the expected uncompressed size handed to the library: the fixed
\* SC_BV_SIZE_IN_BYTES, whatever the config's bitVectorSizeBits
ExpectedUncompressedSize_FromConfig(cfg) == cfg.bitVectorSizeBits \div CHAR_BIT

ExpectedUncompressedSize(cfg) == SC_BV_SIZE_IN_BYTES

\* the validation of BitVectorCertificateField::GetFieldElement
BV_Validate(f, cfg) ==
    LET g == [f EXCEPT !.state = "INVALID", !.pReferenceCfg = cfg]
    IN  IF SizeAboveMax(Len(f.vRawData), cfg.maxCompressedSizeBytes)
        THEN Outcome([g EXCEPT !.fieldElement = NullFieldElement],
                     NullFieldElement, FALSE, TRUE, 0)
        ELSE LET fe == zendoo_merkle_root_from_compressed_bytes(
                           f.vRawData, ExpectedUncompressedSize(cfg))
             IN  IF IsNull(fe)
                 THEN Outcome([g EXCEPT !.fieldElement = NullFieldElement],
                              NullFieldElement, FALSE, TRUE, 1)
                 ELSE Outcome([g EXCEPT !.state = "VALID", !.fieldElement = fe],
                              fe, FALSE, TRUE, 1)

\* BitVectorCertificateField::GetFieldElement(cfg)
BV_GetFieldElement(f, cfg) ==
    IF f.state # "NOT_INITIALIZED" /\ f.pReferenceCfg = nullptr
    THEN Outcome(f, NullFieldElement, TRUE, FALSE, 0)         \* assert fails
    ELSE IF CacheHit(f, cfg)
    THEN Outcome(f, f.fieldElement, FALSE, FALSE, 0)
    ELSE BV_Validate(f, cfg)

(***************************************************************************)
(*              getblocktemplate: constants and pure parts                 *)
(***************************************************************************)
\* Blocks are named by their height: the chain grows from block 1 to at most
\* block MaxHeight.
MaxHeight == 2

\* The mempool update counter grows from 0 to at most MaxMempool.
MaxMempool == 1

\* Stored times are told apart up to MaxAge seconds into the past.
MaxAge == 10

\* First height at which ForkManager::areSidechainsSupported is true.
SidechainForkHeight == 3

\* GetTime(), and boost::get_system_time() in seconds.  The handler reads the
\* clock only to store it (nStart, checktxtime) and to compare it with a stored
\* time, so times are written relative to the clock: the present is always
\* GetTime, and the passing of d seconds moves every stored time d earlier.
GetTime == MaxAge

Earlier(time, d) == IF time > d THEN time - d ELSE 0

\* "GetTime() - nStart > 5"
DebounceSeconds == 5

\* "boost::get_system_time() + boost::posix_time::minutes(1)", in seconds
LongPollSeconds == 60

\* "checktxtime += boost::posix_time::seconds(10)"
LongPollExtendSeconds == 10

\* the amounts by which the clock advances in one step
TickSteps == {DebounceSeconds, LongPollSeconds}

Threads == {"t1", "t2"}

\* the threads whose requests carry a longpollid (the others send none)
LongPollThreads == {"t1"}

NoThread == "none"

NullIndex == 0

Blocks == 1..MaxHeight

\* ForkManager::getInstance().areSidechainsSupported(nHeight)
areSidechainsSupported(nHeight) == nHeight >= SidechainForkHeight

\* The mempool after v updates holds the transactions 1..v and the
\* certificates 1..v.
MempoolTxs(v) == [i \in 1..v |-> [tx |-> i]]

MempoolCerts(v) == [i \in 1..v |-> [cert |-> i]]

\* the block hashes: block h extends block h - 1, the blocks up to the tip are
\* the active chain, and one block more than the chain can ever hold exists
BlockHashes == 1..(MaxHeight + 1)

\* mapBlockIndex.find(hash) == mapBlockIndex.end()
AbsentEntry == [known |-> FALSE, valid |-> FALSE, failed |-> FALSE]

\* a CBlockIndex as the handlers see it: "valid" is
\* pindex->IsValid(BLOCK_VALID_SCRIPTS), "failed" is
\* pindex->nStatus & BLOCK_FAILED_MASK; the two are tested independently
IndexEntry(valid, failed) == [known |-> TRUE, valid |-> valid, failed |-> failed]

IndexEntries == {IndexEntry(v, f) : v \in BOOLEAN, f \in BOOLEAN}

\* the block index of a node whose active chain ends at block best
ChainIndex(best) ==
    [h \in BlockHashes |-> IF h <= best THEN IndexEntry(TRUE, FALSE) ELSE AbsentEntry]

NoTemplate == [null |-> TRUE]

\* the block a new template extends: the tip when CreateNewBlockWithKey runs
TemplateParent_First(tipBlock) == 1

TemplateParent(tipBlock) == tipBlock

\* CreateNewBlockWithKey on success: the coinbase and the mempool's transactions,
\* and its certificates when the next height supports sidechains
CreateNewBlock(tipBlock, mempoolVersion) ==
    [null          |-> FALSE,
     hashPrevBlock |-> TemplateParent(tipBlock),
     nTime         |-> GetTime,
     nNonce        |-> 0,
     vtx           |-> <<[tx |-> 0]>> \o MempoolTxs(mempoolVersion),
     vcert         |-> IF areSidechainsSupported(tipBlock + 1)
                       THEN MempoolCerts(mempoolVersion) ELSE << >>,
     vTxFees       |-> [i \in 1..(mempoolVersion + 1) |-> [fee |-> i - 1]],
     vTxSigOps     |-> [i \in 1..(mempoolVersion + 1) |-> [sigops |-> i - 1]]]

\* "delete pblocktemplate; pblocktemplate = NULL": the cached template is
\* released before a new one is made
ReleasedTemplate_Kept(tmpl) == tmpl

ReleasedTemplate(tmpl) == NoTemplate

\* "UpdateTime(pblock, ...)" and "pblock->nNonce = uint256()": what a request
\* changes in the cached block
RefreshedTemplate(tmpl, time) == [tmpl EXCEPT !.nTime = time, !.nNonce = 0]

NullHash == [hash |-> "null", vtx |-> << >>, vcert |-> << >>, view |-> NullIndex]

\* CBlock::BuildMerkleTree: a hash of the ordered transactions and certificates
BuildMerkleTree(block) ==
    [hash |-> "merkle", vtx |-> block.vtx, vcert |-> block.vcert, view |-> NullIndex]

\* CBlock::BuildScTxsCommitment(view): a hash of the block's sidechain content,
\* read against the coins view of the current tip
BuildScTxsCommitment(block, viewTip) ==
    [hash |-> "sctxs", vtx |-> block.vtx, vcert |-> block.vcert, view |-> viewTip]

\* "GetTime() - nStart > 5"
DebounceElapsed_AtLeast(time, start) == time - start >= DebounceSeconds

DebounceElapsed(time, start) == time - start > DebounceSeconds

\* the test of "Update block": the cached template cannot be served
IsStale(prev, best, updated, updatedLast, time, start) ==
    \/ prev # best
    \/ (updated # updatedLast /\ DebounceElapsed(time, start))

\* "nTransactionsUpdatedLast = mempool.GetTransactionsUpdated()": the counter
\* stored before CreateNewBlockWithKey is called
CapturedCounter_Ahead(updated) == updated + 1

CapturedCounter(updated) == updated

\* "pindexPrev = NULL": clear the cached tip before anything can fail
InvalidatedTip_Kept(prev) == prev

InvalidatedTip(prev) == NullIndex

\* pindexPrev after CreateNewBlockWithKey: "Need to update only after we know
\* CreateNewBlockWithKey succeeded"
TipAfterBuild_Always(ok, current, pindexPrevNew) == pindexPrevNew

TipAfterBuild(ok, current, pindexPrevNew) ==
    IF ok THEN pindexPrevNew ELSE current

\* "LEAVE_CRITICAL_SECTION(cs_main)": who holds cs_main while thread t waits
LockDuringWait_Held(t) == t

LockDuringWait(t) == NoThread

\* the condition of the wait loop:
\* "chainActive.Tip()->GetBlockHash() == hashWatchedChain && IsRPCRunning()"
WaitContinues_TipOnly(best, watched, running) == best = watched

WaitContinues(best, watched, running) == best = watched /\ running

\* "!cvBlockChange.timed_wait(lock, checktxtime)": the wait ends by timeout
DeadlinePassed_Always(time, deadline) == TRUE

DeadlinePassed(time, deadline) == time >= deadline

\* the watched counter of a longpollid that is no string:
\* "nTransactionsUpdatedLastLP = nTransactionsUpdatedLast"
NonStringWatchedCounter_Current(updatedLast, updated) == updated

NonStringWatchedCounter(updatedLast, updated) == updatedLast

\* the checks made before any template is built: the error to throw, or "ok"
PreconditionError(haveAddress, noPeers, ibd) ==
    IF ~haveAddress THEN "RPC_METHOD_NOT_FOUND"
    ELSE IF noPeers THEN "RPC_CLIENT_NOT_CONNECTED"
    ELSE IF ibd THEN "RPC_CLIENT_IN_INITIAL_DOWNLOAD"
    ELSE "ok"

\* the locals of a call that is not running
NoReq ==
    [lp |-> FALSE, nonstring |-> FALSE, current |-> FALSE,
     hashWatchedChain |-> NullIndex,
     nTransactionsUpdatedLastLP |-> 0, checktxtime |-> 0, nHeight |-> 0,
     certSupported |-> FALSE, pindexPrevNew |-> NullIndex, before |-> << >>]

NoResult == [kind |-> "none", thread |-> NoThread]

\* a thrown JSONRPCError
ErrorResult(t, code) ==
    [kind |-> "error", thread |-> t, code |-> code]

\* "static UniValue aMutable" when the response is made: filled on first use
\* with the sidechain decision of the request that fills it
MutableList(certSupported) ==
    <<"time", "transactions">>
        \o (IF certSupported THEN <<"certificates">> ELSE << >>)
        \o <<"prevblock">>

FilledMutable(current, certSupported) ==
    IF current = << >> THEN MutableList(certSupported) ELSE current

\* CBlockIndex::GetMedianTimePast of block index: a time that grows along
\* the chain
GetMedianTimePast(index) == 10 * index

\* "(int64_t)pindexPrev->GetMedianTimePast()+1"
MinTime_Median(prev) == GetMedianTimePast(prev)

MinTime(prev) == GetMedianTimePast(prev) + 1

\* the template-mode response (the keys the properties below read)
TemplateResult(t, r, tmpl, prev, best, updatedLast, mutable) ==
    [kind              |-> "template",
     thread            |-> t,
     waited            |-> r.lp,
     built             |-> r.pindexPrevNew # NullIndex,
     previousblockhash |-> tmpl.hashPrevBlock,
     coinbasetxn       |-> Head(tmpl.vtx),
     transactions      |-> Tail(tmpl.vtx),
     hasCertificates   |-> r.certSupported,
     certificates      |-> IF r.certSupported THEN tmpl.vcert ELSE << >>,
     merkleTree        |-> BuildMerkleTree(tmpl),
     scTxsCommitment   |-> IF r.certSupported THEN BuildScTxsCommitment(tmpl, best)
                           ELSE NullHash,
     longpollid        |-> <<best, updatedLast>>,
     mintime           |-> MinTime(prev),
     curtime           |-> tmpl.nTime,
     mutable           |-> mutable,
     height            |-> prev + 1]

\* the node before any request: nothing cached, nobody in the handler
InitGbtIdle ==
    /\ pindexPrev = NullIndex
    /\ nStart = 0
    /\ pblocktemplate = NoTemplate
    /\ nTransactionsUpdatedLast = 0
    /\ aMutable = << >>
    /\ csMain = NoThread
    /\ pc = [t \in Threads |-> "idle"]
    /\ req = [t \in Threads |-> NoReq]
    /\ result = NoResult
    /\ tip = 1
    /\ mempoolUpdated = 0
    /\ vNodesEmpty = FALSE
    /\ fIBD = FALSE
    /\ minerAddress = TRUE
    /\ fRPCRunning = TRUE
    /\ mapBlockIndex = ChainIndex(1)

(***************************************************************************)
(*                  The custom field as a state machine                    *)
(***************************************************************************)
NoCall ==
    [op |-> "none", cfg |-> nullptr, ret |-> NullFieldElement, valid |-> FALSE,
     validated |-> FALSE, libCalls |-> 0, stateBefore |-> "NOT_INITIALIZED"]

InitField ==
    /\ field \in {NewField(v, raw) : v \in {"FieldElement", "BitVector"}, raw \in RawDataSet}
    /\ call = NoCall
    /\ aborted = FALSE
    /\ InitGbtIdle

\* the effect of a call on the variables
Apply(op, cfg, o) ==
    /\ field' = o.field
    /\ aborted' = o.aborted
    /\ call' = [op |-> op, cfg |-> cfg, ret |-> o.ret, valid |-> ~IsNull(o.ret),
                validated |-> o.validated, libCalls |-> o.libCalls,
                stateBefore |-> field.state]
    /\ UNCHANGED gbtVars

FE_Get(cfg) ==
    /\ ~aborted
    /\ field.variant = "FieldElement"
    /\ Apply("GetFieldElement", cfg, FE_GetFieldElement(field, cfg))

\* FieldElementCertificateField::IsValid(cfg): !GetFieldElement(cfg).IsNull()
FE_IsValid(cfg) ==
    /\ ~aborted
    /\ field.variant = "FieldElement"
    /\ Apply("IsValid", cfg, FE_GetFieldElement(field, cfg))

BV_Get(cfg) ==
    /\ ~aborted
    /\ field.variant = "BitVector"
    /\ Apply("GetFieldElement", cfg, BV_GetFieldElement(field, cfg))

\* BitVectorCertificateField::IsValid(cfg)
BV_IsValid(cfg) ==
    /\ ~aborted
    /\ field.variant = "BitVector"
    /\ Apply("IsValid", cfg, BV_GetFieldElement(field, cfg))

NextField ==
    \/ \E cfg \in FeCfgSet : FE_Get(cfg)
    \/ \E cfg \in FeCfgSet : FE_IsValid(cfg)
    \/ \E cfg \in BvCfgSet : BV_Get(cfg)
    \/ \E cfg \in BvCfgSet : BV_IsValid(cfg)

SpecField == InitField /\ [][NextField]_vars

(***************************************************************************)
(*                      Copies of the custom fields                        *)
(***************************************************************************)
\* operator=(rhs): vRawData and a copy of rhs's reference config are stored;
\* state and fieldElement of the object are not touched
CopyAssigned(f, rhs) ==
    [f EXCEPT !.vRawData = rhs.vRawData, !.pReferenceCfg = rhs.pReferenceCfg]

\* the copy constructor: a default-constructed object with a null
\* pReferenceCfg, then "*this = rhs"
CopyConstructed(rhs) == CopyAssigned(NewField(rhs.variant, << >>), rhs)

\* sampled raw data and configs of the objects that are copied
CopyRawSamples == {<< >>, <<1>>, <<2>>, <<1, 0>>, <<0, 1>>, <<255, 255>>}

CopyCfgs(variant) ==
    IF variant = "FieldElement"
    THEN {FeCfg(CHAR_BIT), FeCfg(BitSize)}
    ELSE {BvCfg(SC_BV_SIZE_IN_BYTES * CHAR_BIT, 1),
          BvCfg(SC_BV_SIZE_IN_BYTES * CHAR_BIT, MaxRawLen)}

\* GetFieldElement of either class
GetFieldElementOf(f, cfg) ==
    IF f.variant = "FieldElement" THEN FE_GetFieldElement(f, cfg)
    ELSE BV_GetFieldElement(f, cfg)

\* the objects passed as rhs: constructed from raw data, and either never
\* asked for their element or asked with some config
SourceFields(variant) ==
    LET fresh == {NewField(variant, raw) : raw \in CopyRawSamples}
    IN  fresh \cup {GetFieldElementOf(f, cfg).field : f \in fresh, cfg \in CopyCfgs(variant)}

\* "field = rhs"
CopyAssign(rhs) ==
    /\ ~aborted
    /\ field' = CopyAssigned(field, rhs)
    /\ call' = [NoCall EXCEPT !.op = "operator=", !.stateBefore = field.state]
    /\ UNCHANGED <<aborted, gbtVars>>

\* the object is replaced by a copy-constructed one
CopyConstruct(rhs) ==
    /\ ~aborted
    /\ field' = CopyConstructed(rhs)
    /\ call' = [NoCall EXCEPT !.op = "copy", !.stateBefore = field.state]
    /\ UNCHANGED <<aborted, gbtVars>>

InitCopy ==
    /\ field \in {NewField(v, raw) : v \in {"FieldElement", "BitVector"},
                                      raw \in CopyRawSamples}
    /\ call = NoCall
    /\ aborted = FALSE
    /\ InitGbtIdle

NextCopy ==
    \/ \E cfg \in CopyCfgs("FieldElement") : FE_Get(cfg)
    \/ \E cfg \in CopyCfgs("FieldElement") : FE_IsValid(cfg)
    \/ \E cfg \in CopyCfgs("BitVector") : BV_Get(cfg)
    \/ \E cfg \in CopyCfgs("BitVector") : BV_IsValid(cfg)
    \/ \E rhs \in SourceFields(field.variant) : CopyAssign(rhs)
    \/ \E rhs \in SourceFields(field.variant) : CopyConstruct(rhs)

SpecCopy == InitCopy /\ [][NextCopy]_vars


(***************************************************************************)
(*                 The configs checked before they are used                *)
(***************************************************************************)
\* A config is constructed from its int32_t arguments and checked, and an
\* accepted or rejected field element config is then used on the field.
\* FieldElementCertificateFieldConfig(nBitsIn).IsValid()
FeCfgIsValid(nBitsIn) ==
    /\ call.op = "none"
    /\ call' = [op |-> "FeCfgIsValid", cfg |-> FeCfg(nBitsIn),
                ret |-> FieldElementCertificateFieldConfig_IsValid(FeCfg(nBitsIn))]
    /\ UNCHANGED <<field, aborted, gbtVars>>

\* BitVectorCertificateFieldConfig(bitVectorSizeBits, maxCompressedSizeBytes).IsValid()
BvCfgIsValid(bitVectorSizeBits, maxCompressedSizeBytes) ==
    /\ call.op = "none"
    /\ call' = [op |-> "BvCfgIsValid", cfg |-> BvCfg(bitVectorSizeBits, maxCompressedSizeBytes),
                ret |-> BitVectorCertificateFieldConfig_IsValid(
                            BvCfg(bitVectorSizeBits, maxCompressedSizeBytes))]
    /\ UNCHANGED <<field, aborted, gbtVars>>

\* GetFieldElement with the field element config checked last
FeCfgUse ==
    /\ call.op = "FeCfgIsValid"
    /\ FE_Get(call.cfg)

NextConfig ==
    \/ \E nBitsIn \in BitSizeInputs : FeCfgIsValid(nBitsIn)
    \/ \E b \in BitVectorSizeInputs : \E m \in CompressedSizeInputs : BvCfgIsValid(b, m)
    \/ FeCfgUse

SpecConfig == InitField /\ [][NextConfig]_vars

(***************************************************************************)
(*                   CZendooCctpLibraryChecker at start-up                 *)
(***************************************************************************)
\* Compiled-in sizes of the verification key, the proof and the custom data
\* (scaled like SC_FIELD_SIZE, and pairwise different).
SC_VK_SIZE == 3

SC_PROOF_SIZE == 4

SC_CUSTOM_DATA_MAX_SIZE == 5

\* what the five zendoo_get_..._size_in_bytes functions of a library return
LibrarySizes(fieldSize, vkSize, proofSize, bvSize, customDataSize) ==
    [zendoo_get_field_size_in_bytes          |-> fieldSize,
     zendoo_get_sc_vk_size_in_bytes          |-> vkSize,
     zendoo_get_sc_proof_size_in_bytes       |-> proofSize,
     zendoo_get_sc_bit_vector_size_in_bytes  |-> bvSize,
     zendoo_get_sc_custom_data_size_in_bytes |-> customDataSize]

Around(n) == (n - 1)..(n + 1)

Libraries ==
    {LibrarySizes(f, v, p, b, c) :
        f \in Around(SC_FIELD_SIZE), v \in Around(SC_VK_SIZE), p \in Around(SC_PROOF_SIZE),
        b \in Around(SC_BV_SIZE_IN_BYTES), c \in Around(SC_CUSTOM_DATA_MAX_SIZE)}

\* CZendooCctpLibraryChecker::CheckTypeSizes: TRUE when one of its asserts fails
CheckTypeSizes(lib) ==
    \/ SC_FIELD_SIZE + 1 # lib.zendoo_get_field_size_in_bytes
    \/ SC_VK_SIZE # lib.zendoo_get_sc_vk_size_in_bytes
    \/ SC_PROOF_SIZE # lib.zendoo_get_sc_proof_size_in_bytes
    \/ SC_BV_SIZE_IN_BYTES # lib.zendoo_get_sc_bit_vector_size_in_bytes
    \/ SC_CUSTOM_DATA_MAX_SIZE # lib.zendoo_get_sc_custom_data_size_in_bytes

\* the node starts against a library and checks its sizes once
CheckLibrary(lib) ==
    /\ ~aborted
    /\ call.op = "none"
    /\ call' = [op |-> "CheckTypeSizes", lib |-> lib]
    /\ aborted' = CheckTypeSizes(lib)
    /\ UNCHANGED <<field, gbtVars>>

NextChecker == \E lib \in Libraries : CheckLibrary(lib)

SpecChecker == InitField /\ [][NextChecker]_vars

(***************************************************************************)
(*                     Properties of the custom fields                     *)
(***************************************************************************)
\* what a freshly constructed field over the same raw data does for cfg
FreshOutcome(f, cfg) ==
    IF f.variant = "FieldElement"
    THEN FE_GetFieldElement(NewField(f.variant, f.vRawData), cfg)
    ELSE BV_GetFieldElement(NewField(f.variant, f.vRawData), cfg)

\* C1: once a call has been made with cfg, a following call with a config
\* equal by value returns the same element and validity, changes nothing in
\* the object (state, reference config, cached element) and runs neither
\* validation nor a library call.
C1_ConfigReuse ==
    [][ (call.op # "none" /\ call'.op # "none" /\ CfgEqual(call'.cfg, call.cfg))
        => /\ call'.ret = call.ret
           /\ call'.valid = call.valid
           /\ field' = field
           /\ ~call'.validated
           /\ call'.libCalls = 0
           /\ aborted' = aborted ]_vars

\* a memoized call that returned a valid element without validating again
C1_Witness ==
    /\ call.op = "IsValid"
    /\ call.stateBefore = "VALID"
    /\ ~call.validated
    /\ call.valid
    /\ call.libCalls = 0

\* C2: a call with a config that differs by value from the stored reference
\* config runs the full validation, returns what a freshly constructed field
\* over the same raw data returns for that config, and leaves that config as
\* the stored reference.
C2_ConfigChange ==
    [][ (call'.op # "none" /\ ~aborted' /\ ~CfgEqual(field.pReferenceCfg, call'.cfg)
         /\ <<field, call>>' # <<field, call>>)
        => /\ call'.validated
           /\ call'.ret = FreshOutcome(field, call'.cfg).ret
           /\ field'.state = FreshOutcome(field, call'.cfg).field.state
           /\ field'.fieldElement = call'.ret
           /\ field'.vRawData = field.vRawData
           /\ CfgEqual(field'.pReferenceCfg, call'.cfg) ]_vars

\* a field that was valid under the previous config and is revalidated as
\* invalid under a different one
C2_Witness ==
    /\ call.op = "GetFieldElement"
    /\ call.stateBefore = "VALID"
    /\ call.validated
    /\ ~call.valid
    /\ field.state = "INVALID"
    /\ CfgEqual(field.pReferenceCfg, call.cfg)

\* ceil(bitSize/8) and the number of reserved low-order bits of the last byte
BytesForBits(bitSize) ==
    IF bitSize <= 0 THEN 0 ELSE (bitSize + 7) \div 8

ReservedBits(bitSize) == BytesForBits(bitSize) * 8 - bitSize

\* the reserved low-order bits of the last byte are all zero
PaddingIsZero(raw, bitSize) ==
    \/ Len(raw) = 0
    \/ bitSize <= 0
    \/ raw[Len(raw)] % Pow2(ReservedBits(bitSize)) = 0

\* a completed FieldElementCertificateField call whose raw data has the size
\* the config asks for
FeSizedCall ==
    /\ field.variant = "FieldElement"
    /\ call.op # "none"
    /\ ~aborted
    /\ Len(field.vRawData) = BytesForBits(call.cfg.nBits)

\* C3 as stated: right size and zero padding give a non-null element, a
\* nonzero reserved bit gives Null; {8, [0x01]} validates, {4, [0x01]} fails.
C3_Original ==
    FeSizedCall =>
        /\ PaddingIsZero(field.vRawData, call.cfg.nBits) => call.valid
        /\ ~PaddingIsZero(field.vRawData, call.cfg.nBits) => ~call.valid

\* C3 (amended): with the right size and zero padding the element is non-null
\* exactly when the zero-extended buffer deserializes as a field element; a
\* nonzero reserved bit gives Null; {8, [0x01]} validates, {4, [0x01]} fails.
C3_PaddingRule ==
    FeSizedCall =>
        /\ PaddingIsZero(field.vRawData, call.cfg.nBits)
              => (call.valid <=> zendoo_deserialize_field(ExtendedRawData(field.vRawData)))
        /\ ~PaddingIsZero(field.vRawData, call.cfg.nBits) => ~call.valid
        /\ (field.vRawData = <<1>> /\ call.cfg.nBits = 8) => call.valid
        /\ (field.vRawData = <<1>> /\ call.cfg.nBits = 4) => ~call.valid
        /\ call.valid => call.ret = ExtendedRawData(field.vRawData)

\* {bitSize = 4} over raw [0x10]: four reserved bits, all zero, accepted
C3_Witness ==
    /\ field.variant = "FieldElement"
    /\ field.vRawData = <<16>>
    /\ call.cfg = FeCfg(4)
    /\ call.validated
    /\ call.valid
    /\ call.libCalls = 1

\* C4: GetFieldElement never aborts the process, and every failure is a Null
\* element with validation state INVALID.
C4_NeverAborts ==
    /\ ~aborted
    /\ (call.op # "none" /\ IsNull(call.ret)) => field.state = "INVALID"

\* C5: raw data longer than maxCompressedSizeBytes gives Null without a
\* decompression call, whatever the content.
C5_SizeLimit ==
    (/\ field.variant = "BitVector"
     /\ call.op # "none"
     /\ Len(field.vRawData) > call.cfg.maxCompressedSizeBytes)
        => (~call.valid /\ (call.validated => call.libCalls = 0))


(***************************************************************************)
(*                 getblocktemplate as a state machine                     *)
(***************************************************************************)
InitGbt ==
    /\ field = NewField("FieldElement", << >>)
    /\ call = NoCall
    /\ aborted = FALSE
    /\ pindexPrev = NullIndex
    /\ nStart = 0
    /\ pblocktemplate = NoTemplate
    /\ nTransactionsUpdatedLast = 0
    /\ aMutable = << >>
    /\ csMain = NoThread
    /\ pc = [t \in Threads |-> "idle"]
    /\ req = [t \in Threads |-> NoReq]
    /\ result = NoResult
    /\ tip = 1
    /\ mempoolUpdated = 0
    /\ vNodesEmpty \in BOOLEAN
    /\ fIBD \in BOOLEAN
    /\ minerAddress \in BOOLEAN
    /\ fRPCRunning = TRUE
    /\ mapBlockIndex = ChainIndex(1)

\* no longpollid in the request
NullLp == [type |-> "null"]

\* the longpollid values a request of thread t may carry: a string naming any
\* block and any counter value, or a value that is no string
LpInputs(t) ==
    IF t \in LongPollThreads
    THEN {[type |-> "nonstring"]}
         \cup {[type |-> "string", hash |-> h, count |-> c] :
                  h \in Blocks, c \in 0..MaxMempool}
    ELSE {NullLp}

\* the call returns or throws: the outcome is recorded, cs_main is released
Return(t, outcome) ==
    /\ result' = outcome
    /\ pc' = [pc EXCEPT ![t] = "idle"]
    /\ req' = [req EXCEPT ![t] = NoReq]
    /\ csMain' = NoThread

\* the template response from the cached template (NULL is dereferenced when
\* there is none)
Respond(t, tmpl, prev, updatedLast) ==
    IF tmpl.null \/ prev = NullIndex
    THEN /\ Return(t, [kind |-> "crash", thread |-> t])
         /\ pblocktemplate' = tmpl
         /\ UNCHANGED aMutable
    ELSE /\ pblocktemplate' = RefreshedTemplate(tmpl, GetTime)
         /\ aMutable' = FilledMutable(aMutable, req[t].certSupported)
         /\ Return(t, TemplateResult(t, req[t], pblocktemplate', prev, tip, updatedLast,
                                     aMutable'))

\* A template-mode request arrives: LOCK(cs_main), the precondition checks,
\* and for a request with a longpollid the watched values and
\* LEAVE_CRITICAL_SECTION(cs_main).
Enter(t, lpval) ==
    /\ pc[t] = "idle"
    /\ fRPCRunning
    /\ csMain = NoThread
    /\ LET err == PreconditionError(minerAddress, vNodesEmpty, fIBD)
           r0  == [NoReq EXCEPT !.nHeight = tip + 1,
                                !.certSupported = areSidechainsSupported(tip + 1)]
       IN  IF err # "ok"
           THEN Return(t, ErrorResult(t, err))
           ELSE IF lpval.type = "null"
           THEN /\ pc' = [pc EXCEPT ![t] = "update"]
                /\ req' = [req EXCEPT ![t] = r0]
                /\ csMain' = t
                /\ UNCHANGED result
           ELSE /\ pc' = [pc EXCEPT ![t] = "lp_test"]
                /\ req' = [req EXCEPT ![t] =
                      [r0 EXCEPT !.lp = TRUE,
                                 !.nonstring = (lpval.type = "nonstring"),
                                 !.current = (lpval.type = "string"
                                              /\ lpval.hash = tip
                                              /\ lpval.count = mempoolUpdated),
                                 !.hashWatchedChain =
                                     IF lpval.type = "string" THEN lpval.hash ELSE tip,
                                 !.nTransactionsUpdatedLastLP =
                                     IF lpval.type = "string" THEN lpval.count
                                     ELSE NonStringWatchedCounter(
                                              nTransactionsUpdatedLast, mempoolUpdated),
                                 !.checktxtime = GetTime + LongPollSeconds]]
                /\ csMain' = LockDuringWait(t)
                /\ UNCHANGED result
    /\ UNCHANGED <<fieldVars, aMutable, envVars, cacheVars>>

\* The positions at which a thread holds csBestBlock: the unique_lock is made
\* after cs_main was left and is destroyed at the end of the block, before
\* cs_main is entered again; inside timed_wait the mutex is released.
BestBlockLockedAt_UntilReturn == {"lp_test", "lp_done", "update", "build"}

BestBlockLockedAt == {"lp_test", "lp_done"}

\* the thread that holds csBestBlock
csBestBlock ==
    IF \E t \in Threads : pc[t] \in BestBlockLockedAt
    THEN CHOOSE t \in Threads : pc[t] \in BestBlockLockedAt
    ELSE NoThread

\* the condition of the wait loop
LpTest(t) ==
    /\ pc[t] = "lp_test"
    /\ pc' = [pc EXCEPT ![t] =
                 IF WaitContinues(tip, req[t].hashWatchedChain, fRPCRunning)
                 THEN "lp_wait" ELSE "lp_done"]
    /\ UNCHANGED <<fieldVars, aMutable, envVars, cacheVars, csMain, req, result>>

\* cvBlockChange.timed_wait returns true: notified, or woken spuriously
LpWake(t) ==
    /\ pc[t] = "lp_wait"
    /\ pc' = [pc EXCEPT ![t] = "lp_test"]
    /\ UNCHANGED <<fieldVars, aMutable, envVars, cacheVars, csMain, req, result>>

\* where the loop continues after a timeout that found the mempool unchanged:
\* at its condition
AfterTimeout_WaitAgain == "lp_wait"

AfterTimeout == "lp_test"

\* cvBlockChange.timed_wait returns false: the deadline has passed
LpTimeout(t) ==
    /\ pc[t] = "lp_wait"
    /\ DeadlinePassed(GetTime, req[t].checktxtime)
    /\ IF mempoolUpdated # req[t].nTransactionsUpdatedLastLP
       THEN /\ pc' = [pc EXCEPT ![t] = "lp_done"]
            /\ req' = req
       ELSE /\ pc' = [pc EXCEPT ![t] = AfterTimeout]
            /\ req' = [req EXCEPT ![t].checktxtime = @ + LongPollExtendSeconds]
    /\ UNCHANGED <<fieldVars, aMutable, envVars, cacheVars, csMain, result>>

\* the holder of cs_main after ENTER_CRITICAL_SECTION(cs_main)
Reacquired_Not(t) == NoThread

Reacquired(t) == t

\* ENTER_CRITICAL_SECTION(cs_main) after the wait, then the shutdown check
LpReacquire(t) ==
    /\ pc[t] = "lp_done"
    /\ csMain = NoThread
    /\ IF ~fRPCRunning
       THEN Return(t, ErrorResult(t, "RPC_CLIENT_NOT_CONNECTED_shutdown"))
       ELSE /\ csMain' = Reacquired(t)
            /\ pc' = [pc EXCEPT ![t] = "update"]
            /\ UNCHANGED <<req, result>>
    /\ UNCHANGED <<fieldVars, aMutable, envVars, cacheVars>>

\* "Update block": serve the cached template, or start a new construction
StaleCheck(t) ==
    /\ pc[t] = "update"
    /\ csMain = t
    /\ IF IsStale(pindexPrev, tip, mempoolUpdated, nTransactionsUpdatedLast, GetTime, nStart)
       THEN /\ pindexPrev' = InvalidatedTip(pindexPrev)
            /\ nTransactionsUpdatedLast' = CapturedCounter(mempoolUpdated)
            /\ nStart' = GetTime
            /\ pblocktemplate' = ReleasedTemplate(pblocktemplate)
            /\ req' = [req EXCEPT ![t].pindexPrevNew = tip,
                                  ![t].before = <<pblocktemplate, nTransactionsUpdatedLast>>]
            /\ pc' = [pc EXCEPT ![t] = "build"]
            /\ UNCHANGED <<csMain, result, aMutable>>
       ELSE /\ Respond(t, pblocktemplate, pindexPrev, nTransactionsUpdatedLast)
            /\ UNCHANGED <<pindexPrev, nStart, nTransactionsUpdatedLast>>
    /\ UNCHANGED <<fieldVars, envVars>>

\* CreateNewBlockWithKey succeeds: the template is cached and served
BuildOk(t) ==
    /\ pc[t] = "build"
    /\ csMain = t
    /\ pindexPrev' = TipAfterBuild(TRUE, pindexPrev, req[t].pindexPrevNew)
    /\ Respond(t, CreateNewBlock(tip, mempoolUpdated), pindexPrev', nTransactionsUpdatedLast)
    /\ UNCHANGED <<fieldVars, envVars, nStart, nTransactionsUpdatedLast>>

\* CreateNewBlockWithKey returns NULL: "Out of memory" is thrown
BuildFail(t) ==
    /\ pc[t] = "build"
    /\ csMain = t
    /\ pblocktemplate' = NoTemplate
    /\ pindexPrev' = TipAfterBuild(FALSE, pindexPrev, req[t].pindexPrevNew)
    /\ Return(t, ErrorResult(t, "RPC_OUT_OF_MEMORY"))
    /\ UNCHANGED <<fieldVars, aMutable, envVars, nStart, nTransactionsUpdatedLast>>

\* a block is connected: the tip moves, under cs_main
ConnectTip ==
    /\ csMain = NoThread
    /\ tip < MaxHeight
    /\ ~mapBlockIndex[tip + 1].failed
    /\ tip' = tip + 1
    /\ mapBlockIndex' = [mapBlockIndex EXCEPT ![tip + 1] = IndexEntry(TRUE, FALSE)]
    /\ result' = NoResult
    /\ UNCHANGED <<fieldVars, aMutable, mempoolUpdated, vNodesEmpty, fIBD, minerAddress,
                   fRPCRunning, cacheVars, csMain, pc, req>>

\* the mempool changes, under its own lock
MempoolUpdate ==
    /\ mempoolUpdated < MaxMempool
    /\ mempoolUpdated' = mempoolUpdated + 1
    /\ result' = NoResult
    /\ UNCHANGED <<fieldVars, aMutable, mapBlockIndex, tip, vNodesEmpty, fIBD, minerAddress,
                   fRPCRunning, cacheVars, csMain, pc, req>>

\* d seconds pass: seen from the clock, every stored time is d further in the
\* past (a time more than MaxAge ago is kept as MaxAge ago).  A step shorter
\* than MaxAge is taken while the last build start is less than MaxAge ago
\* and no request is in its long-poll wait: a short step only tells the age
\* of the cached template apart, and the deadline of a waiting request, a
\* minute ahead, is passed by a long step.
Tick(d) ==
    /\ d < MaxAge => /\ nStart > 0
                     /\ \A t \in Threads : pc[t] \notin {"lp_test", "lp_wait", "lp_done"}
    /\ nStart' = Earlier(nStart, d)
    /\ req' = [t \in Threads |-> [req[t] EXCEPT !.checktxtime = Earlier(@, d)]]
    /\ pblocktemplate' = IF pblocktemplate.null THEN pblocktemplate
                         ELSE [pblocktemplate EXCEPT !.nTime = Earlier(@, d)]
    /\ UNCHANGED <<fieldVars, aMutable, envVars, pindexPrev,
                   nTransactionsUpdatedLast, csMain, pc, result>>

\* The last peer disconnects while a request is in progress (a request that
\* arrives without peers is covered by the initial states).
PeersLost ==
    /\ ~vNodesEmpty
    /\ \E t \in Threads : pc[t] # "idle"
    /\ vNodesEmpty' = TRUE
    /\ UNCHANGED <<fieldVars, aMutable, mapBlockIndex, tip, mempoolUpdated, fIBD, minerAddress,
                   fRPCRunning, cacheVars, csMain, pc, req, result>>

\* initial block download ends (and does not start again)
FinishIBD ==
    /\ fIBD
    /\ fIBD' = FALSE
    /\ UNCHANGED <<fieldVars, aMutable, mapBlockIndex, tip, mempoolUpdated, vNodesEmpty, minerAddress,
                   fRPCRunning, cacheVars, csMain, pc, req, result>>

\* StopRPC while a request is in its long-poll wait, the only place where the
\* handler looks at IsRPCRunning (no request arrives after it)
StopRPC ==
    /\ fRPCRunning
    /\ \E t \in Threads : pc[t] \in {"lp_test", "lp_wait", "lp_done"}
    /\ fRPCRunning' = FALSE
    /\ UNCHANGED <<fieldVars, aMutable, mapBlockIndex, tip, mempoolUpdated, vNodesEmpty, fIBD, minerAddress,
                   cacheVars, csMain, pc, req, result>>

NextGbt ==
    \/ \E t \in Threads : \E lpval \in LpInputs(t) : Enter(t, lpval)
    \/ \E t \in Threads : LpTest(t)
    \/ \E t \in Threads : LpWake(t)
    \/ \E t \in Threads : LpTimeout(t)
    \/ \E t \in Threads : LpReacquire(t)
    \/ \E t \in Threads : StaleCheck(t)
    \/ \E t \in Threads : BuildOk(t)
    \/ \E t \in Threads : BuildFail(t)
    \/ ConnectTip
    \/ MempoolUpdate
    \/ \E d \in TickSteps : Tick(d)
    \/ PeersLost
    \/ FinishIBD
    \/ StopRPC

SpecGbt == InitGbt /\ [][NextGbt]_vars

(***************************************************************************)
(*                  getblocktemplate with fair scheduling                  *)
(***************************************************************************)
\* A thread that can run does run: the loop condition is evaluated, a
\* timed_wait whose deadline has passed returns, and the steps made under
\* cs_main are taken.  A thread blocked in ENTER_CRITICAL_SECTION gets the
\* mutex if it is free again and again.  The clock advances.  Notifications
\* of cvBlockChange are not assumed to arrive.
Fairness ==
    /\ \A t \in Threads :
          /\ WF_vars(LpTest(t))
          /\ WF_vars(LpTimeout(t))
          /\ SF_vars(LpReacquire(t))
          /\ WF_vars(StaleCheck(t))
          /\ WF_vars(BuildOk(t) \/ BuildFail(t))
    /\ WF_vars(Tick(LongPollSeconds))

\* the requests of a node that has peers, is out of initial block download
\* and has a miner address, with the clock advancing in long steps
InitWait ==
    /\ InitGbt
    /\ ~vNodesEmpty
    /\ ~fIBD
    /\ minerAddress

NextWait ==
    \/ \E t \in Threads : \E lpval \in LpInputs(t) : Enter(t, lpval)
    \/ \E t \in Threads : LpTest(t)
    \/ \E t \in Threads : LpWake(t)
    \/ \E t \in Threads : LpTimeout(t)
    \/ \E t \in Threads : LpReacquire(t)
    \/ \E t \in Threads : StaleCheck(t)
    \/ \E t \in Threads : BuildOk(t)
    \/ \E t \in Threads : BuildFail(t)
    \/ ConnectTip
    \/ MempoolUpdate
    \/ Tick(LongPollSeconds)
    \/ StopRPC

SpecWait == InitWait /\ [][NextWait]_vars /\ Fairness

(***************************************************************************)
(*      Block proposals, submitblock and getblockmerkleroots               *)
(***************************************************************************)
\* the number of items in a list given to getblockmerkleroots
MaxItems == 1

\* the block with hash h
BlockOf(h) == [hash |-> h, hashPrevBlock |-> h - 1]

\* what a hex string holds: the serialisation of a block, or something else
EncodeHexBlk(block) == [enc |-> "block", block |-> block]

GarbageHex == [enc |-> "garbage"]

\* DecodeHexBlk(block, strHexBlk)
DecodeHexBlk(str) ==
    IF str.enc = "block" THEN [ok |-> TRUE, block |-> str.block] ELSE [ok |-> FALSE]

\* the values of the "data" key of a proposal, and of the first parameter of
\* submitblock
NullValue == [type |-> "null"]

StrValue(str) == [type |-> "str", str |-> str]

HexBlockValues == {StrValue(EncodeHexBlk(BlockOf(h))) : h \in BlockHashes}
                     \cup {StrValue(GarbageHex)}

\* a CValidationState
ValidState == [mode |-> "valid", reason |-> ""]

ValidationStates ==
    {ValidState,
     [mode |-> "invalid", reason |-> ""],
     [mode |-> "invalid", reason |-> "bad-txns"],
     [mode |-> "error", reason |-> "disk"]}

\* what a handler gives back: a value, or a thrown JSONRPCError
Value(v) == [throw |-> FALSE, value |-> v]

Throw(code) == [throw |-> TRUE, code |-> code]

\* BIP22ValidationResult(state)
BIP22ValidationResult(state) ==
    IF state.mode = "valid" THEN Value("null")
    ELSE IF state.mode = "error" THEN Throw("RPC_VERIFY_ERROR")
    ELSE IF state.mode = "invalid"
         THEN IF state.reason = "" THEN Value("rejected") ELSE Value(state.reason)
    ELSE Value("valid?")

\* the answer of proposal mode for a block that is in the block index
KnownBlockResult_FailedFirst(entry) ==
    IF entry.failed THEN "duplicate-invalid"
    ELSE IF entry.valid THEN "duplicate"
    ELSE "duplicate-inconclusive"

KnownBlockResult(entry) ==
    IF entry.valid THEN "duplicate"
    ELSE IF entry.failed THEN "duplicate-invalid"
    ELSE "duplicate-inconclusive"

\* "block.hashPrevBlock != pindexPrev->GetBlockHash()" is false
ExtendsTip_Always(hashPrevBlock, best) == TRUE

ExtendsTip(hashPrevBlock, best) == hashPrevBlock = best

\* getblocktemplate with mode "proposal": what it gives back, and whether
\* TestBlockValidity ran; state is what TestBlockValidity would find
ProposalOutcome(haveAddress, dataval, index, best, state) ==
    IF ~haveAddress
    THEN [ret |-> Throw("RPC_METHOD_NOT_FOUND"), tested |-> FALSE]
    ELSE IF dataval.type # "str"
    THEN [ret |-> Throw("RPC_TYPE_ERROR"), tested |-> FALSE]
    ELSE LET d == DecodeHexBlk(dataval.str)
         IN  IF ~d.ok
             THEN [ret |-> Throw("RPC_DESERIALIZATION_ERROR"), tested |-> FALSE]
             ELSE IF index[d.block.hash].known
             THEN [ret |-> Value(KnownBlockResult(index[d.block.hash])),
                   tested |-> FALSE]
             ELSE IF ~ExtendsTip(d.block.hashPrevBlock, best)
             THEN [ret |-> Value("inconclusive-not-best-prevblk"), tested |-> FALSE]
             ELSE [ret |-> BIP22ValidationResult(state), tested |-> TRUE]

\* the outcome of a call of one of the three handlers of this section: what
\* it was given, what it gave back, and whether it went as far as the
\* validation (or the computation) it exists for
RpcResult(t, kind, input, ret, tested) ==
    [kind |-> kind, thread |-> t, input |-> input, ret |-> ret, tested |-> tested]

\* the outcome of submitblock: also the index entry it found and what
\* ProcessNewBlock reported
SubmitResult(t, input, ret, tested, before, fAccepted, found, state) ==
    [kind |-> "submitblock", thread |-> t, input |-> input, ret |-> ret,
     tested |-> tested, before |-> before, fAccepted |-> fAccepted,
     found |-> found, state |-> state]

\* A getblocktemplate request with mode "proposal", a "data" value and any
\* longpollid: the whole call, made under cs_main.
Proposal(t, lpval, dataval) ==
    /\ pc[t] = "idle"
    /\ fRPCRunning
    /\ csMain = NoThread
    /\ \E state \in ValidationStates :
          LET o == ProposalOutcome(minerAddress, dataval, mapBlockIndex, tip, state)
          IN  result' = RpcResult(t, "proposal", dataval, o.ret, o.tested)
    /\ UNCHANGED <<fieldVars, aMutable, envVars, cacheVars, csMain, pc, req>>

\* a "mode" value that is neither a string nor null
NumValue == [type |-> "num"]

\* the "mode" values that select neither the template nor the proposal mode
InvalidModeValues == {NumValue, StrValue("other")}

\* the parsing of "mode": the error thrown, or "ok".  A value that is no
\* string and not null is refused at once, an unknown mode string after the
\* proposal branch has been passed by.
ModeError_TypeError(modeval) ==
    IF modeval.type \notin {"str", "null"} THEN "RPC_TYPE_ERROR"
    ELSE IF modeval.type = "str" /\ modeval.str \notin {"template", "proposal"}
    THEN "RPC_INVALID_PARAMETER"
    ELSE "ok"

ModeError(modeval) ==
    IF modeval.type \notin {"str", "null"} THEN "RPC_INVALID_PARAMETER"
    ELSE IF modeval.type = "str" /\ modeval.str \notin {"template", "proposal"}
    THEN "RPC_INVALID_PARAMETER"
    ELSE "ok"

\* A getblocktemplate request whose "mode" is refused, with any longpollid:
\* the whole call, made under cs_main.
InvalidMode(t, modeval, lpval) ==
    /\ pc[t] = "idle"
    /\ fRPCRunning
    /\ csMain = NoThread
    /\ ModeError(modeval) # "ok"
    /\ result' = RpcResult(t, "mode", modeval,
                           IF ~minerAddress THEN Throw("RPC_METHOD_NOT_FOUND")
                           ELSE Throw(ModeError(modeval)),
                           FALSE)
    /\ UNCHANGED <<fieldVars, aMutable, envVars, cacheVars, csMain, pc, req>>

\* What ProcessNewBlock can do with a block that is not known as valid or as
\* failed: connect it as the new tip, find it invalid while connecting it,
\* store it without checking it, refuse it, or fail.  fAccepted is its return
\* value, found and scState are what the submitblock_StateCatcher saw, state
\* is the CValidationState it filled, entry and best are the block's index
\* entry and the tip afterwards.
ProcessNewBlock(block, index, best) ==
    LET old == index[block.hash]
    IN  (IF block.hashPrevBlock = best /\ best < MaxHeight
         THEN {[fAccepted |-> TRUE, found |-> TRUE, state |-> ValidState,
                scState |-> ValidState, entry |-> IndexEntry(TRUE, FALSE),
                best |-> block.hash]}
         ELSE {})
        \cup
        (IF block.hashPrevBlock = best
         THEN {[fAccepted |-> TRUE, found |-> TRUE, state |-> ValidState,
                scState |-> s, entry |-> IndexEntry(FALSE, TRUE), best |-> best]
                  : s \in {v \in ValidationStates : v.mode = "invalid"}}
         ELSE {[fAccepted |-> TRUE, found |-> FALSE, state |-> ValidState,
                scState |-> ValidState, entry |-> IndexEntry(FALSE, FALSE),
                best |-> best]})
        \cup
        {[fAccepted |-> FALSE, found |-> FALSE, state |-> s, scState |-> ValidState,
          entry |-> IF old.known /\ s.mode = "invalid"
                    THEN IndexEntry(FALSE, TRUE) ELSE old,
          best |-> best] : s \in {v \in ValidationStates : v.mode # "valid"}}

\* submitblock after ProcessNewBlock
SubmitBlockResult(fBlockPresent, o) ==
    IF fBlockPresent
    THEN IF o.fAccepted /\ ~o.found THEN Value("duplicate-inconclusive")
         ELSE Value("duplicate")
    ELSE IF o.fAccepted /\ ~o.found THEN Value("inconclusive")
    ELSE BIP22ValidationResult(IF o.fAccepted THEN o.scState ELSE o.state)

\* submitblock "hexdata": the whole call
SubmitBlock(t, hexdata) ==
    /\ pc[t] = "idle"
    /\ fRPCRunning
    /\ csMain = NoThread
    /\ LET d == DecodeHexBlk(hexdata.str)
       IN  IF ~d.ok
           THEN /\ result' = SubmitResult(t, hexdata, Throw("RPC_DESERIALIZATION_ERROR"),
                                          FALSE, AbsentEntry, FALSE, FALSE, ValidState)
                /\ UNCHANGED <<tip, mapBlockIndex>>
           ELSE LET entry == mapBlockIndex[d.block.hash]
                IN  IF entry.known /\ (entry.valid \/ entry.failed)
                    THEN /\ result' = SubmitResult(t, hexdata,
                                         Value(IF entry.valid THEN "duplicate"
                                               ELSE "duplicate-invalid"),
                                         FALSE, entry, FALSE, FALSE, ValidState)
                         /\ UNCHANGED <<tip, mapBlockIndex>>
                    ELSE \E o \in ProcessNewBlock(d.block, mapBlockIndex, tip) :
                            /\ result' = SubmitResult(t, hexdata,
                                            SubmitBlockResult(entry.known, o), TRUE,
                                            entry, o.fAccepted, o.found,
                                            IF o.found THEN o.scState ELSE o.state)
                            /\ tip' = o.best
                            /\ mapBlockIndex' =
                                  [mapBlockIndex EXCEPT ![d.block.hash] = o.entry]
    /\ UNCHANGED <<fieldVars, aMutable, mempoolUpdated, vNodesEmpty, fIBD, minerAddress,
                   fRPCRunning, cacheVars, csMain, pc, req>>

\* the hex strings given to getblockmerkleroots: a transaction, a certificate,
\* or something else
EncodeHexTx(tx) == [enc |-> "tx", tx |-> tx]

EncodeHexCert(cert) == [enc |-> "cert", cert |-> cert]

\* DecodeHexTx(transaction, strHexTx)
DecodeHexTx(str) ==
    IF str.enc = "tx" THEN [ok |-> TRUE, tx |-> str.tx] ELSE [ok |-> FALSE]

\* DecodeHexCert(certificate, strHexCert)
DecodeHexCert(str) ==
    IF str.enc = "cert" THEN [ok |-> TRUE, cert |-> str.cert] ELSE [ok |-> FALSE]

HexTxLists == SeqsUpTo({EncodeHexTx([tx |-> 1]), GarbageHex}, MaxItems)

HexCertLists == SeqsUpTo({EncodeHexCert([cert |-> 1]), GarbageHex}, MaxItems)

\* "if (certSupported) scTxsCommitment = pblock->BuildScTxsCommitment(view)"
CommitmentOf_Always(certSupported, block, viewTip) ==
    BuildScTxsCommitment(block, viewTip)

CommitmentOf(certSupported, block, viewTip) ==
    IF certSupported THEN BuildScTxsCommitment(block, viewTip) ELSE NullHash

\* getblockmerkleroots: decode the transactions, then the certificates, then
\* compute the two roots of a block made of them
MerkleRootsOutcome(txsStr, certsStr, best) ==
    IF \E i \in 1..Len(txsStr) : ~DecodeHexTx(txsStr[i]).ok
    THEN [ret |-> Throw("RPC_DESERIALIZATION_ERROR_tx"), tested |-> FALSE]
    ELSE IF \E i \in 1..Len(certsStr) : ~DecodeHexCert(certsStr[i]).ok
    THEN [ret |-> Throw("RPC_DESERIALIZATION_ERROR_cert"), tested |-> FALSE]
    ELSE LET block == [null |-> FALSE, hashPrevBlock |-> NullIndex,
                       vtx   |-> [i \in 1..Len(txsStr) |-> DecodeHexTx(txsStr[i]).tx],
                       vcert |-> [i \in 1..Len(certsStr) |->
                                     DecodeHexCert(certsStr[i]).cert]]
         IN  [ret |-> Value([merkleTree |-> BuildMerkleTree(block),
                             scTxsCommitment |->
                                 CommitmentOf(areSidechainsSupported(best + 1),
                                              block, best)]),
              tested |-> TRUE]

\* getblockmerkleroots transactions certificates: the whole call, under cs_main
GetBlockMerkleRoots(t, txsStr, certsStr) ==
    /\ pc[t] = "idle"
    /\ fRPCRunning
    /\ csMain = NoThread
    /\ LET o == MerkleRootsOutcome(txsStr, certsStr, tip)
       IN  result' = RpcResult(t, "merkleroots", <<txsStr, certsStr>>, o.ret, o.tested)
    /\ UNCHANGED <<fieldVars, aMutable, envVars, cacheVars, csMain, pc, req>>

\* The block index changes outside the handlers: the header of a block beyond
\* the tip arrives, or such a block is validated or marked failed.
IndexChange(h, entry) ==
    /\ h > tip
    /\ mapBlockIndex[h] # entry
    /\ mapBlockIndex' = [mapBlockIndex EXCEPT ![h] = entry]
    /\ result' = NoResult
    /\ UNCHANGED <<fieldVars, aMutable, tip, mempoolUpdated, vNodesEmpty, fIBD, minerAddress,
                   fRPCRunning, cacheVars, csMain, pc, req>>

\* the node before any request, with or without a coinbase destination, with
\* or without peers, in or out of initial block download
InitBlock ==
    /\ field = NewField("FieldElement", << >>)
    /\ call = NoCall
    /\ aborted = FALSE
    /\ pindexPrev = NullIndex
    /\ nStart = 0
    /\ pblocktemplate = NoTemplate
    /\ nTransactionsUpdatedLast = 0
    /\ aMutable = << >>
    /\ csMain = NoThread
    /\ pc = [t \in Threads |-> "idle"]
    /\ req = [t \in Threads |-> NoReq]
    /\ result = NoResult
    /\ tip = 1
    /\ mempoolUpdated = 0
    /\ vNodesEmpty \in BOOLEAN
    /\ fIBD \in BOOLEAN
    /\ minerAddress \in BOOLEAN
    /\ fRPCRunning = TRUE
    /\ mapBlockIndex = ChainIndex(1)

\* template requests without longpollid next to the three handlers of this
\* section, while blocks and transactions arrive
NextBlock ==
    \/ \E t \in Threads : \E lpval \in LpInputs(t) :
          \E dataval \in HexBlockValues \cup {NullValue} : Proposal(t, lpval, dataval)
    \/ \E t \in Threads : \E lpval \in LpInputs(t) :
          \E modeval \in InvalidModeValues : InvalidMode(t, modeval, lpval)
    \/ \E t \in Threads : \E hexdata \in HexBlockValues : SubmitBlock(t, hexdata)
    \/ \E t \in Threads : \E txsStr \in HexTxLists : \E certsStr \in HexCertLists :
          GetBlockMerkleRoots(t, txsStr, certsStr)
    \/ \E h \in BlockHashes : \E entry \in IndexEntries : IndexChange(h, entry)
    \/ \E t \in Threads \ LongPollThreads : Enter(t, NullLp)
    \/ \E t \in Threads \ LongPollThreads : StaleCheck(t)
    \/ \E t \in Threads \ LongPollThreads : BuildOk(t)
    \/ \E t \in Threads \ LongPollThreads : BuildFail(t)
    \/ ConnectTip
    \/ MempoolUpdate

SpecBlock == InitBlock /\ [][NextBlock]_vars

(***************************************************************************)
(*              The transactions array of a template response              *)
(***************************************************************************)
\* A block holds its coinbase and at most MaxBlockTxs transactions.
MaxBlockTxs == 3

\* the hash of a transaction confirmed in an earlier block
ConfirmedHash == MaxBlockTxs + 1

\* a transaction: its hash and the prevout.hash of each of its inputs
Tx(hash, vin) == [hash |-> hash, vin |-> vin, coinbase |-> FALSE]

CoinbaseTx == [hash |-> 0, vin |-> << >>, coinbase |-> TRUE]

\* The blocks CreateNewBlockWithKey can make: the coinbase first, then
\* transactions with different hashes, each spending one or two outputs of
\* transactions before it in the block or of the confirmed transaction.
\* BlockExtensions(vtx): the blocks with one more transaction than vtx.
BlockExtensions(vtx) ==
    LET used      == {vtx[j].hash : j \in 1..Len(vtx)}
        spendable == {ConfirmedHash} \cup {vtx[j].hash : j \in 2..Len(vtx)}
    IN  {Append(vtx, Tx(h, vin)) :
            h \in (1..MaxBlockTxs) \ used,
            vin \in SeqsUpTo(spendable, 2) \ {<< >>}}

RECURSIVE BlockTxListsOfLen(_)
BlockTxListsOfLen(n) ==
    IF n = 0 THEN {<<CoinbaseTx>>}
    ELSE UNION {BlockExtensions(vtx) : vtx \in BlockTxListsOfLen(n - 1)}

\* the blocks of at most maxTxs transactions besides the coinbase
BlockTxLists(maxTxs) == UNION {BlockTxListsOfLen(n) : n \in 0..maxTxs}

\* "setTxIndex[txHash] = i++": the index given to the k-th transaction of
\* pblock->vtx, the coinbase being the first
TxIndex_FromOne(k) == k

TxIndex(k) == k - 1

\* setTxIndex when the k-th transaction is handled: the transactions up to
\* and including it; a hash met again keeps the later index
InSetTxIndex(vtx, k, hash) == \E j \in 1..k : vtx[j].hash = hash

SetTxIndex(vtx, k, hash) ==
    TxIndex(CHOOSE j \in 1..k :
                /\ vtx[j].hash = hash
                /\ \A j2 \in 1..k : vtx[j2].hash = hash => j2 <= j)

\* the "depends" array of the k-th transaction: one entry for each input
\* whose prevout.hash is in setTxIndex, in the order of the inputs
RECURSIVE Depends(_, _, _)
Depends(vtx, k, vin) ==
    IF Len(vin) = 0 THEN << >>
    ELSE (IF InSetTxIndex(vtx, k, Head(vin))
          THEN <<SetTxIndex(vtx, k, Head(vin))>> ELSE << >>)
         \o Depends(vtx, k, Tail(vin))

\* the entry made for the k-th transaction
TxEntry(vtx, k) ==
    [data    |-> EncodeHexTx(vtx[k]),
     hash    |-> vtx[k].hash,
     depends |-> Depends(vtx, k, vtx[k].vin)]

\* The loop over pblock->vtx: the coinbase is skipped when coinbasetxn is
\* false and becomes txCoinbase when it is true; the entries of the other
\* transactions are the transactions array.
RECURSIVE TransactionEntries(_, _)
TransactionEntries(vtx, k) ==
    IF k > Len(vtx) THEN << >>
    ELSE (IF vtx[k].coinbase THEN << >> ELSE <<TxEntry(vtx, k)>>)
         \o TransactionEntries(vtx, k + 1)

\* a template request answered from a cached block with the transactions vtx
ListTransactions(t, vtx) ==
    /\ pc[t] = "idle"
    /\ csMain = NoThread
    /\ result = NoResult
    /\ result' = [kind         |-> "transactions",
                  thread       |-> t,
                  transactions |-> TransactionEntries(vtx, 1)]
    /\ UNCHANGED <<fieldVars, aMutable, envVars, cacheVars, csMain, pc, req>>

NextTxList == \E vtx \in BlockTxLists(MaxBlockTxs) : \E t \in Threads : ListTransactions(t, vtx)

SpecTxList == InitWait /\ [][NextTxList]_vars

(***************************************************************************)
(*            Template requests while the chain is reorganised             *)
(***************************************************************************)
\* The tip block is disconnected (a reorganisation, or invalidateblock): the
\* tip is its predecessor again; the block stays in the index.
DisconnectTip ==
    /\ csMain = NoThread
    /\ tip > 1
    /\ tip' = tip - 1
    /\ result' = NoResult
    /\ UNCHANGED <<fieldVars, aMutable, mempoolUpdated, vNodesEmpty, fIBD, minerAddress,
                   fRPCRunning, mapBlockIndex, cacheVars, csMain, pc, req>>

\* template requests without longpollid while blocks are connected and
\* disconnected and transactions arrive
NextReorg ==
    \/ \E t \in Threads \ LongPollThreads : Enter(t, NullLp)
    \/ \E t \in Threads \ LongPollThreads : StaleCheck(t)
    \/ \E t \in Threads \ LongPollThreads : BuildOk(t)
    \/ \E t \in Threads \ LongPollThreads : BuildFail(t)
    \/ ConnectTip
    \/ DisconnectTip
    \/ MempoolUpdate
    \/ \E d \in TickSteps : Tick(d)

SpecReorg == InitBlock /\ [][NextReorg]_vars

Init == InitField \/ InitCopy \/ InitGbt \/ InitBlock

Next == NextField \/ NextConfig \/ NextChecker \/ NextGbt \/ NextWait \/ NextBlock \/ NextReorg
            \/ NextTxList \/ NextCopy

Spec == Init /\ [][Next]_vars


(***************************************************************************)
(*                    Properties of getblocktemplate                       *)
(***************************************************************************)
\* the request of thread t is turned away by a precondition check
EnterFails(t) ==
    \E lpval \in LpInputs(t) : Enter(t, lpval) /\ pc'[t] = "idle"

\* the call of thread t ends in this step with a response
Responds(t) ==
    /\ StaleCheck(t) \/ BuildOk(t)
    /\ pc'[t] = "idle"

\* the three values of two responses that the idempotence statements compare
SameTemplate(a, b) ==
    /\ a.longpollid = b.longpollid
    /\ a.merkleTree = b.merkleTree
    /\ a.scTxsCommitment = b.scTxsCommitment

\* C6 as stated: the template is regenerated exactly when the cached tip
\* differs from the best tip, or the mempool counter differs from the snapshot
\* and AT LEAST 5 seconds have passed since the last build start.
C6_Original ==
    [][\A t \in Threads : StaleCheck(t) =>
          (pc'[t] = "build" <=>
              \/ pindexPrev # tip
              \/ /\ mempoolUpdated # nTransactionsUpdatedLast
                 /\ GetTime - nStart >= DebounceSeconds)]_vars

\* C6: getblocktemplate regenerates the cached template exactly when the
\* cached tip pointer differs from the current best tip, or the mempool update
\* counter differs from the snapshot of the last build and MORE THAN 5 seconds
\* have passed since the last build start; otherwise it serves the cached
\* template and leaves the cache as it is, but for the block time and the
\* nonce of the cached block.
C6_RegenerationRule ==
    [][\A t \in Threads : StaleCheck(t) =>
          /\ pc'[t] = "build" <=>
                \/ pindexPrev # tip
                \/ /\ mempoolUpdated # nTransactionsUpdatedLast
                   /\ GetTime - nStart > DebounceSeconds
          /\ pc'[t] # "build" =>
                /\ result'.kind = "template"
                /\ ~result'.built
                /\ result'.previousblockhash = pblocktemplate.hashPrevBlock
                /\ result'.transactions = Tail(pblocktemplate.vtx)
                /\ pblocktemplate' = RefreshedTemplate(pblocktemplate, GetTime)
                /\ UNCHANGED <<pindexPrev, nStart, nTransactionsUpdatedLast>>]_vars

\* a cached template was served exactly 5 seconds after its build started,
\* although the mempool counter had moved on
C6_Witness ==
    /\ result.kind = "template"
    /\ ~result.built
    /\ mempoolUpdated # nTransactionsUpdatedLast
    /\ GetTime - nStart = DebounceSeconds

\* C7: if template construction fails, the caller gets a hard error and the
\* cached tip pointer is left cleared; while it is cleared, the next template
\* request starts a new construction whatever the mempool counter and the
\* elapsed time, only a successful construction sets it again, and no
\* response is ever made from a missing template.
C7_FailureLeavesStale ==
    [][/\ \A t \in Threads :
            /\ BuildFail(t) =>
                  /\ result'.kind = "error"
                  /\ result'.code = "RPC_OUT_OF_MEMORY"
                  /\ pindexPrev' = NullIndex
                  /\ pblocktemplate' = NoTemplate
            /\ (StaleCheck(t) /\ pindexPrev = NullIndex) =>
                  /\ pc'[t] = "build"
                  /\ result' = result
       /\ (pindexPrev = NullIndex /\ pindexPrev' # NullIndex) =>
             \E t \in Threads : BuildOk(t) /\ result'.built
       /\ result'.kind # "crash"]_vars

\* after a failed construction the next request has started a new one
C7_Witness ==
    /\ result.kind = "error"
    /\ result.code = "RPC_OUT_OF_MEMORY"
    /\ \E t \in Threads : pc[t] = "build" /\ req[t].before[1] = NoTemplate

\* C8 as stated: after an error return, a failed construction included, the
\* cached template object and the mempool counter snapshot are the ones from
\* before the call.
C8_Original ==
    [][\A t \in Threads :
          /\ EnterFails(t) => UNCHANGED cacheVars
          /\ BuildFail(t) =>
                <<pblocktemplate', nTransactionsUpdatedLast'>> = req[t].before]_vars

\* C8: a request turned away because there is no coinbase destination, no
\* peer, or the node is in initial block download leaves the cached template,
\* the cached tip, the counter snapshot and the build start time unchanged.  A
\* request whose construction fails does not: when the construction starts
\* the old template is released, the tip pointer cleared, and the snapshot and
\* the start time are overwritten with the current values; the failure leaves
\* the cache in that state.
C8_ErrorsAndTheCache ==
    [][\A t \in Threads :
          /\ EnterFails(t) => (result'.kind = "error" /\ UNCHANGED cacheVars)
          /\ (StaleCheck(t) /\ pc'[t] = "build") =>
                /\ pblocktemplate' = NoTemplate
                /\ pindexPrev' = NullIndex
                /\ nTransactionsUpdatedLast' = mempoolUpdated
                /\ nStart' = GetTime
          /\ BuildFail(t) =>
                /\ pblocktemplate' = NoTemplate
                /\ pindexPrev' = NullIndex
                /\ UNCHANGED <<nTransactionsUpdatedLast, nStart>>]_vars

\* a request was turned away for want of peers while a template was cached
C8_Witness ==
    /\ result.kind = "error"
    /\ result.code = "RPC_CLIENT_NOT_CONNECTED"
    /\ pblocktemplate # NoTemplate
    /\ pindexPrev = tip

\* C9: a template request that does not wait, made after a template response
\* with no tip change and no mempool change in between, returns the same
\* longpollid, merkleTree and scTxsCommitment as that response, whatever the
\* time elapsed and whatever happened before the first request.
C9_Original ==
    [][\A t \in Threads :
          ( /\ Responds(t)
            /\ ~req[t].lp
            /\ result.kind = "template"
            /\ result'.kind = "template" )
          => SameTemplate(result, result')]_vars

\* C10: a request that waited on a longpollid equal to the best
\* block and the mempool counter of the moment of the call returns a response
\* whose longpollid is not that longpollid.
C10_ReflectsChange ==
    [][\A t \in Threads :
          ( /\ Responds(t)
            /\ req[t].lp
            /\ req[t].current
            /\ result'.kind = "template" )
          => result'.longpollid #
                <<req[t].hashWatchedChain, req[t].nTransactionsUpdatedLastLP>>]_vars

\* the long-poll part of the handler: between LEAVE_CRITICAL_SECTION and
\* ENTER_CRITICAL_SECTION
InLongPoll(t) == pc[t] \in {"lp_test", "lp_wait", "lp_done"}

\* C11: a thread in the long-poll wait does not hold cs_main, a thread that
\* reads the cache or builds holds it, and so, while requests wait and no
\* other request is in progress, cs_main is free for any handler to take.
C11_WaitWithoutLock ==
    /\ \A t \in Threads :
          /\ InLongPoll(t) => csMain # t
          /\ pc[t] \in {"update", "build"} <=> csMain = t
    /\ (\A t \in Threads : pc[t] = "idle" \/ InLongPoll(t)) => csMain = NoThread

\* one thread has been waiting for a minute when another thread, holding
\* cs_main, starts a construction
C11_Witness ==
    /\ pc["t1"] = "lp_wait"
    /\ req["t1"].checktxtime <= GetTime
    /\ pc["t2"] = "build"
    /\ csMain = "t2"
    /\ nStart = GetTime

\* C12: when the RPC subsystem is no longer running, the wait loop ends at its
\* next test whatever the tip, and the call that comes out of a long-poll wait
\* throws the shutdown error: it gets neither cs_main nor a template and it
\* leaves the cached template, the cached tip pointer, the counter snapshot
\* and the build start time as they are.
C12_ShutdownAfterWait ==
    [][\A t \in Threads :
          /\ (LpTest(t) /\ ~fRPCRunning) => pc'[t] = "lp_done"
          /\ (LpReacquire(t) /\ ~fRPCRunning) =>
                /\ result' = ErrorResult(t, "RPC_CLIENT_NOT_CONNECTED_shutdown")
                /\ pc'[t] = "idle"
                /\ csMain' = NoThread
                /\ UNCHANGED cacheVars]_vars

\* a call that watched the tip it was given, and whose tip never changed, has
\* ended with the shutdown error while a template is cached
C12_Witness ==
    /\ result.kind = "error"
    /\ result.code = "RPC_CLIENT_NOT_CONNECTED_shutdown"
    /\ ~fRPCRunning
    /\ tip = 1
    /\ pblocktemplate # NoTemplate
    /\ pindexPrev = tip

\* C13: in the long-poll wait of a running RPC server the mempool counter is
\* compared with the watched value only on a timeout.  The first deadline is
\* LongPollSeconds after the wait starts; a timeout that finds the counter
\* equal to the watched value moves the deadline LongPollExtendSeconds later
\* and the wait goes on, a timeout that finds it different ends the wait;
\* nothing else moves the deadline; a wake-up with the tip unchanged neither
\* ends the wait nor moves the deadline; and with the tip unchanged the wait
\* ends only at a passed deadline with a counter other than the watched one.
C13_MempoolOnlyAtTimeout ==
    [][\A t \in Threads :
          /\ (pc[t] = "idle" /\ pc'[t] = "lp_test") =>
                req'[t].checktxtime = GetTime + LongPollSeconds
          /\ LpTimeout(t) =>
                /\ GetTime >= req[t].checktxtime
                /\ IF mempoolUpdated = req[t].nTransactionsUpdatedLastLP
                   THEN /\ pc'[t] = "lp_test"
                        /\ req'[t] = [req[t] EXCEPT !.checktxtime =
                                         @ + LongPollExtendSeconds]
                   ELSE /\ pc'[t] = "lp_done"
                        /\ req'[t] = req[t]
          /\ LpWake(t) => (pc'[t] = "lp_test" /\ req'[t] = req[t])
          /\ (LpTest(t) /\ tip = req[t].hashWatchedChain /\ fRPCRunning) =>
                (pc'[t] = "lp_wait" /\ req'[t] = req[t])
          /\ (InLongPoll(t) /\ pc'[t] # "idle"
                /\ req'[t].checktxtime # req[t].checktxtime) =>
                (LpTimeout(t) \/ \E d \in TickSteps : Tick(d))
          /\ (pc[t] \in {"lp_test", "lp_wait"} /\ pc'[t] = "lp_done"
                /\ tip = req[t].hashWatchedChain /\ fRPCRunning) =>
                /\ GetTime >= req[t].checktxtime
                /\ mempoolUpdated # req[t].nTransactionsUpdatedLastLP]_vars

\* after a timeout that extended the deadline, the mempool has changed and the
\* call still waits for the new deadline, on an unchanged tip
C13_Witness ==
    /\ pc["t1"] = "lp_wait"
    /\ fRPCRunning
    /\ tip = req["t1"].hashWatchedChain
    /\ req["t1"].current
    /\ mempoolUpdated # req["t1"].nTransactionsUpdatedLastLP
    /\ req["t1"].checktxtime = GetTime + LongPollExtendSeconds

\* a template request of thread t with longpollid lpval passes the
\* precondition checks in this step
Accepted(t, lpval) == Enter(t, lpval) /\ pc'[t] # "idle"

\* C14 as stated: a request whose longpollid is absent or is no string
\* watches the current best-block hash and the current mempool counter and
\* waits for the next change.
C14_Original ==
    [][\A t \in Threads : \A lpval \in LpInputs(t) :
          (Accepted(t, lpval) /\ lpval.type # "string") =>
              /\ pc'[t] = "lp_test"
              /\ req'[t].hashWatchedChain = tip
              /\ req'[t].nTransactionsUpdatedLastLP = mempoolUpdated]_vars

\* C14: a request without longpollid does not wait at all: it goes on to the
\* cache test holding cs_main.  A request whose longpollid is no string waits,
\* and watches the current best-block hash together with the counter snapshot
\* of the last template build (the static nTransactionsUpdatedLast, 0 before
\* the first build), which need not be the mempool's current counter.
C14_WatchedValues ==
    [][\A t \in Threads : \A lpval \in LpInputs(t) :
          /\ (Accepted(t, lpval) /\ lpval.type = "null") =>
                /\ pc'[t] = "update"
                /\ csMain' = t
                /\ ~req'[t].lp
          /\ (Accepted(t, lpval) /\ lpval.type = "nonstring") =>
                /\ pc'[t] = "lp_test"
                /\ req'[t].hashWatchedChain = tip
                /\ req'[t].nTransactionsUpdatedLastLP = nTransactionsUpdatedLast]_vars

\* a request with a longpollid that is no string has just started to wait,
\* and the counter it watches is not the mempool's current counter
C14_Witness ==
    /\ pc["t1"] = "lp_wait"
    /\ req["t1"].nonstring
    /\ req["t1"].checktxtime = GetTime + LongPollSeconds
    /\ req["t1"].hashWatchedChain = tip
    /\ req["t1"].nTransactionsUpdatedLastLP # mempoolUpdated
    /\ req["t1"].nTransactionsUpdatedLastLP = nTransactionsUpdatedLast

\* C15: in every template response the sidechain decision is the one for the
\* exported height: certificates[] is present exactly when sidechains are
\* supported at that height, and scTxsCommitment is the computed commitment
\* then and the null value otherwise, also after a long-poll wait during which
\* the tip changed.
C15_SidechainDecision ==
    [][\A t \in Threads :
          (Responds(t) /\ result'.kind = "template") =>
              /\ result'.hasCertificates = areSidechainsSupported(result'.height)
              /\ (result'.scTxsCommitment = NullHash)
                    = ~areSidechainsSupported(result'.height)]_vars

\* C16: whenever a request that waited in long-poll starts the construction
\* of a template or returns one, the node has a connected peer, is not in
\* initial block download and has a coinbase destination at that moment.
C16_PreconditionsAtBuild ==
    [][\A t \in Threads :
          (req[t].lp /\ (StaleCheck(t) \/ BuildOk(t))) =>
              PreconditionError(minerAddress, vNodesEmpty, fIBD) = "ok"]_vars


(***************************************************************************)
(*       Properties of proposals, submitblock and getblockmerkleroots      *)
(***************************************************************************)
\* the proposals of a decodable block
BlockValues == {StrValue(EncodeHexBlk(BlockOf(h))) : h \in BlockHashes}

\* the block a hex string value holds
BlockIn(dataval) == DecodeHexBlk(dataval.str).block

DuplicateResults == {"duplicate", "duplicate-invalid", "duplicate-inconclusive"}

\* a call of the handler of the given kind ends in this step (a call that
\* changes nothing at all is a stuttering step)
Answers(kind) == result' # result /\ result'.kind = kind

\* a proposal of a decodable block is answered in this step
ProposalOfBlock == Answers("proposal") /\ result'.input \in BlockValues

\* C17 as stated: a proposal of a block whose previous-block hash is not the
\* current tip returns "inconclusive-not-best-prevblk" and runs no trial
\* validation, whether or not the block's hash is in the block index.
C17_Original ==
    [][(ProposalOfBlock /\ BlockIn(result'.input).hashPrevBlock # tip) =>
          /\ result'.ret = Value("inconclusive-not-best-prevblk")
          /\ ~result'.tested]_vars

\* C17: a proposal of a block whose previous-block hash is not the current
\* tip never runs the trial validation.  It returns
\* "inconclusive-not-best-prevblk" when the block's hash is not in the block
\* index; when the hash is in the index the lookup comes first and the answer
\* is one of the three duplicate results; and on a node without a coinbase
\* destination the request fails with RPC_METHOD_NOT_FOUND before its mode is
\* looked at.  Peers and initial block download play no part.
C17_NotBestPrevBlock ==
    [][(ProposalOfBlock /\ BlockIn(result'.input).hashPrevBlock # tip) =>
          /\ ~result'.tested
          /\ IF ~minerAddress
             THEN result'.ret = Throw("RPC_METHOD_NOT_FOUND")
             ELSE IF ~mapBlockIndex[BlockIn(result'.input).hash].known
             THEN result'.ret = Value("inconclusive-not-best-prevblk")
             ELSE /\ ~result'.ret.throw
                  /\ result'.ret.value \in DuplicateResults]_vars

\* a node without peers has answered "inconclusive-not-best-prevblk" to the
\* proposal of an unknown block that does not extend the tip
C17_Witness ==
    /\ result.kind = "proposal"
    /\ result.input \in BlockValues
    /\ ~mapBlockIndex[BlockIn(result.input).hash].known
    /\ BlockIn(result.input).hashPrevBlock # tip
    /\ result.ret = Value("inconclusive-not-best-prevblk")
    /\ ~result.tested
    /\ vNodesEmpty

\* a proposal of a block whose hash is in the block index is answered
ProposalOfKnownBlock ==
    ProposalOfBlock /\ mapBlockIndex[BlockIn(result'.input).hash].known

\* proposal mode touches neither the cached template, the cached tip pointer,
\* the counter snapshot and the build start time, nor the chain and the
\* index, and the call is over at once, with or without a longpollid
ProposalTouchesNothing ==
    Answers("proposal") =>
        UNCHANGED <<cacheVars, envVars, csMain, pc, req>>

\* C18 as stated: the proposal of a known block yields "duplicate" when the
\* entry is fully validated, else "duplicate-invalid" when it is marked
\* failed, else "duplicate-inconclusive"; and a proposal never modifies the
\* cache and never waits.
C18_Original ==
    [][/\ ProposalTouchesNothing
       /\ ProposalOfKnownBlock =>
             result'.ret =
                 LET entry == mapBlockIndex[BlockIn(result'.input).hash]
                 IN  Value(IF entry.valid THEN "duplicate"
                           ELSE IF entry.failed THEN "duplicate-invalid"
                           ELSE "duplicate-inconclusive")]_vars

\* C18: on a node with a coinbase destination the proposal of a known block
\* yields "duplicate" when the entry is fully validated, else
\* "duplicate-invalid" when it is marked failed, else
\* "duplicate-inconclusive", without a trial validation; on a node without
\* one it fails with RPC_METHOD_NOT_FOUND.  In both cases, and for every
\* other proposal, the cache is left alone and the call does not wait, with
\* or without a longpollid.
C18_KnownBlock ==
    [][/\ ProposalTouchesNothing
       /\ ProposalOfKnownBlock =>
             /\ ~result'.tested
             /\ result'.ret =
                   LET entry == mapBlockIndex[BlockIn(result'.input).hash]
                   IN  IF ~minerAddress THEN Throw("RPC_METHOD_NOT_FOUND")
                       ELSE Value(IF entry.valid THEN "duplicate"
                                  ELSE IF entry.failed THEN "duplicate-invalid"
                                  ELSE "duplicate-inconclusive")]_vars

\* a proposal sent with a longpollid, of a block whose entry is both fully
\* validated and marked failed, was answered "duplicate" while a template
\* built on an older tip is cached
C18_Witness ==
    /\ result.kind = "proposal"
    /\ result.thread \in LongPollThreads
    /\ result.input \in BlockValues
    /\ mapBlockIndex[BlockIn(result.input).hash] = IndexEntry(TRUE, TRUE)
    /\ result.ret = Value("duplicate")
    /\ pblocktemplate # NoTemplate
    /\ pindexPrev # tip

\* C19: submitblock puts every decodable block into one class with the
\* documented meaning: the empty result only for a block accepted and checked
\* valid; "duplicate" only when the node already had a valid copy;
\* "duplicate-invalid" only when the known block was marked failed;
\* "duplicate-inconclusive" only when the block was known and was not
\* checked; "inconclusive" when an unknown block was accepted and not
\* checked; "rejected" or the reject reason when the block was found
\* invalid; the verification error when processing ended in an error state.
C19_Classification ==
    [][(Answers("submitblock") /\ result'.input \in BlockValues) =>
          LET r == result'
              v == IF r.ret.throw THEN "" ELSE r.ret.value
          IN  /\ (v = "null") => (r.fAccepted /\ r.found /\ r.state.mode = "valid")
              /\ (v = "duplicate") => (r.before.known /\ r.before.valid)
              /\ (v = "duplicate-invalid") => (r.before.known /\ r.before.failed)
              /\ (v = "duplicate-inconclusive") =>
                    (r.before.known /\ r.tested /\ r.fAccepted /\ ~r.found)
              /\ (r.tested /\ ~r.before.known /\ r.fAccepted /\ ~r.found) =>
                    v = "inconclusive"
              /\ (r.tested /\ r.state.mode = "invalid") =>
                    v = (IF r.state.reason = "" THEN "rejected" ELSE r.state.reason)
              /\ (r.tested /\ r.state.mode = "error") =>
                    r.ret = Throw("RPC_VERIFY_ERROR")]_vars

\* every item of the two lists decodes
AllDecode(txsStr, certsStr) ==
    /\ \A i \in 1..Len(txsStr) : DecodeHexTx(txsStr[i]).ok
    /\ \A i \in 1..Len(certsStr) : DecodeHexCert(certsStr[i]).ok

\* C20: getblockmerkleroots leaves the cached template, the other statics of
\* getblocktemplate, the chain and the index alone.  When an item of either
\* list does not decode it throws the deserialization error and computes no
\* root.  Otherwise merkleTree is the root of the supplied transactions and
\* certificates, in their order, and scTxsCommitment is the commitment of
\* the same lists against the view of the tip when sidechains are supported
\* at the next height, and the null value when they are not: nothing else
\* enters the result.
C20_MerkleRoots ==
    [][Answers("merkleroots") =>
          LET txsStr   == result'.input[1]
              certsStr == result'.input[2]
              txs   == [i \in 1..Len(txsStr) |-> DecodeHexTx(txsStr[i]).tx]
              certs == [i \in 1..Len(certsStr) |-> DecodeHexCert(certsStr[i]).cert]
          IN  /\ UNCHANGED <<cacheVars, envVars, csMain, pc, req>>
              /\ IF ~AllDecode(txsStr, certsStr)
                 THEN /\ result'.ret.throw
                      /\ result'.ret.code \in {"RPC_DESERIALIZATION_ERROR_tx",
                                               "RPC_DESERIALIZATION_ERROR_cert"}
                      /\ ~result'.tested
                 ELSE /\ ~result'.ret.throw
                      /\ result'.ret.value.merkleTree =
                            [hash |-> "merkle", vtx |-> txs, vcert |-> certs,
                             view |-> NullIndex]
                      /\ result'.ret.value.scTxsCommitment =
                            IF areSidechainsSupported(tip + 1)
                            THEN [hash |-> "sctxs", vtx |-> txs, vcert |-> certs,
                                  view |-> tip]
                            ELSE NullHash]_vars

\* with a template cached, the roots of a transaction and a certificate were
\* asked for at a height that supports sidechains: they are not the cached
\* template's roots and the commitment is not null
C20_Witness ==
    /\ result.kind = "merkleroots"
    /\ ~result.ret.throw
    /\ Len(result.input[1]) > 0
    /\ Len(result.input[2]) > 0
    /\ areSidechainsSupported(tip + 1)
    /\ result.ret.value.scTxsCommitment # NullHash
    /\ pblocktemplate # NoTemplate
    /\ pindexPrev = tip
    /\ result.ret.value.merkleTree # BuildMerkleTree(pblocktemplate)


(***************************************************************************)
(*              Properties of the template response, continued             *)
(***************************************************************************)
\* what getblockmerkleroots gives, at the present tip, for the ordered
\* transactions (coinbase first) and the ordered certificates of a template
\* response
RootsOfResponse(r) ==
    LET txs == <<r.coinbasetxn>> \o r.transactions
    IN  MerkleRootsOutcome([i \in 1..Len(txs) |-> EncodeHexTx(txs[i])],
                           [i \in 1..Len(r.certificates) |->
                               EncodeHexCert(r.certificates[i])],
                           tip)

\* C21: while the tip is the one of a template response, getblockmerkleroots
\* called with the response's ordered transactions (coinbase first, then
\* transactions[]) and its ordered certificates returns the merkleTree and
\* the scTxsCommitment of the response.
C21_SameRoots ==
    result.kind = "template" =>
        /\ ~RootsOfResponse(result).ret.throw
        /\ RootsOfResponse(result).ret.value.merkleTree = result.merkleTree
        /\ RootsOfResponse(result).ret.value.scTxsCommitment = result.scTxsCommitment

\* the entries of a list
Entries(list) == {list[i] : i \in 1..Len(list)}

\* C22: while the tip is the one of a template response, the response's
\* mutable list contains "time", "transactions" and "prevblock", and contains
\* "certificates" only if sidechains are supported at the next height.
C22_MutableList ==
    result.kind = "template" =>
        /\ {"time", "transactions", "prevblock"} \subseteq Entries(result.mutable)
        /\ "certificates" \in Entries(result.mutable) =>
              areSidechainsSupported(tip + 1)

\* C26: in every template response mintime is above the median time past of
\* the block the template extends, and previousblockhash, height, mintime and
\* the hash part of longpollid all belong to one block, the tip of the best
\* chain when the response is made.
C26_OneBlock ==
    result.kind = "template" =>
        /\ result.mintime > GetMedianTimePast(result.previousblockhash)
        /\ result.previousblockhash = tip
        /\ result.height = tip + 1
        /\ result.mintime = GetMedianTimePast(tip) + 1
        /\ result.longpollid[1] = tip

\* a response made after a long-poll wait during which the tip has moved
C26_Witness ==
    /\ result.kind = "template"
    /\ result.waited
    /\ result.built
    /\ result.previousblockhash = 2
    /\ tip = 2

\* a request with malformed input is answered in this step: a refused mode,
\* or a proposal whose data is no string or does not decode
MalformedAnswered ==
    \/ Answers("mode")
    \/ Answers("proposal") /\ result'.input \notin BlockValues

\* the error the parsing gives for the malformed input of a response
ParsingError(r) ==
    IF r.kind = "mode" THEN "RPC_INVALID_PARAMETER"
    ELSE IF r.input.type # "str" THEN "RPC_TYPE_ERROR"
    ELSE "RPC_DESERIALIZATION_ERROR"

MalformedTouchesNothing ==
    UNCHANGED <<cacheVars, aMutable, envVars, csMain, pc, req>>

\* C27 as stated: malformed input is rejected with a parameter, type or
\* deserialization error, the cached template, tip pointer, counter snapshot
\* and build start time are unchanged and no long-poll wait is entered.
C27_Original ==
    [][MalformedAnswered =>
          /\ result'.ret = Throw(ParsingError(result'))
          /\ MalformedTouchesNothing]_vars

\* C27: malformed input is rejected with an error, leaving the cached
\* template, tip pointer, counter snapshot and build start time unchanged and
\* entering no long-poll wait.  The error is the parameter, type or
\* deserialization error of the parsing when a coinbase destination is
\* configured, and RPC_METHOD_NOT_FOUND when none is.
C27_MalformedInput ==
    [][MalformedAnswered =>
          /\ result'.ret = IF ~minerAddress THEN Throw("RPC_METHOD_NOT_FOUND")
                           ELSE Throw(ParsingError(result'))
          /\ MalformedTouchesNothing]_vars

\* a long-poll client's request with a mode that is no string was refused
\* while a template was cached
C27_Witness ==
    /\ result.kind = "mode"
    /\ result.thread \in LongPollThreads
    /\ result.input = NumValue
    /\ result.ret = Throw("RPC_INVALID_PARAMETER")
    /\ pblocktemplate # NoTemplate

\* what a template was built with: the block it extends, its transactions
\* (the coinbase first), its certificates and the fee and sigop annotations
Selection(tmpl) ==
    IF tmpl.null THEN << >>
    ELSE <<tmpl.hashPrevBlock, tmpl.vtx, tmpl.vcert, tmpl.vTxFees, tmpl.vTxSigOps>>

\* a regeneration is under way: the old template is released, the new one is
\* not made yet
Regenerating == \E t \in Threads : pc[t] = "build"

\* a request is answered with a template in this step
TemplateServed ==
    /\ \E t \in Threads : pc[t] \in {"update", "build"} /\ pc'[t] = "idle"
    /\ result'.kind = "template"

\* C30: what the cached template was built with changes only in the two steps
\* of a regeneration, the release of the old template and the installation of
\* the new one; the old template is released before the new one is made; a
\* request served from the cache changes nothing but the block time and the
\* nonce of the cached block.
C30_TemplateLifecycle ==
    [][/\ Selection(pblocktemplate') # Selection(pblocktemplate) =>
             (Regenerating \/ Regenerating')
       /\ Regenerating' => pblocktemplate' = NoTemplate
       /\ TemplateServed =>
             /\ pblocktemplate'.nTime = GetTime
             /\ pblocktemplate'.nNonce = 0
             /\ ~Regenerating =>
                   pblocktemplate' = RefreshedTemplate(pblocktemplate, GetTime)]_vars

\* the cached template has been served again, some time after it was built
C30_Witness ==
    /\ result.kind = "template"
    /\ ~result.built
    /\ nStart < GetTime
    /\ pblocktemplate.nTime = GetTime
    /\ Len(pblocktemplate.vtx) > 1

(***************************************************************************)
(*               Properties of the custom fields, continued                *)
(***************************************************************************)
\* fe is raw with zero bytes in front up to ByteSize: the raw bytes are the
\* last ones, in order
LeftPadded(raw, fe) ==
    /\ Len(fe) = ByteSize
    /\ Len(raw) <= ByteSize
    /\ \A i \in 1..ByteSize :
          fe[i] = IF i <= ByteSize - Len(raw) THEN 0
                  ELSE raw[i - (ByteSize - Len(raw))]

\* a call of the field element variant is made in this step
FeCallMade ==
    /\ field.variant = "FieldElement"
    /\ call' # call
    /\ call'.op # "none"

\* the call made in this step has returned the null element
ReturnedNull == ~aborted' /\ IsNull(call'.ret)

\* C28: a successful GetFieldElement of the field element variant returns the
\* raw data left-padded with zero bytes to ByteSize; the call returns Null
\* whenever the raw data size is not ceil(bitSize/8) or the padded buffer does
\* not deserialize; the raw data is never modified.
C28_LeftPadding ==
    [][FeCallMade =>
          /\ field'.vRawData = field.vRawData
          /\ call'.valid => LeftPadded(field.vRawData, call'.ret)
          /\ Len(field.vRawData) # BytesForBits(call'.cfg.nBits) => ReturnedNull
          /\ (/\ Len(field.vRawData) <= ByteSize
              /\ ~zendoo_deserialize_field(ExtendedRawData(field.vRawData)))
                => ReturnedNull]_vars

\* the bitVectorSizeBits of the sampled bit vector configs
BitVectorSizes == {cfg.bitVectorSizeBits : cfg \in BvCfgSet}

\* C29: the outcome of BitVectorCertificateField::GetFieldElement does not
\* depend on bitVectorSizeBits: a call returns the element and validity of the
\* call before it when the two configs have the same maxCompressedSizeBytes,
\* and those of a fresh field over the same raw data under every config with
\* that maxCompressedSizeBytes.
C29_SizeBitsIgnored ==
    [][(field.variant = "BitVector" /\ call'.op # "none") =>
          /\ (call.op # "none"
                /\ call'.cfg.maxCompressedSizeBytes = call.cfg.maxCompressedSizeBytes)
                => (call'.ret = call.ret /\ call'.valid = call.valid)
          /\ \A b \in BitVectorSizes :
                FreshOutcome(field, BvCfg(b, call'.cfg.maxCompressedSizeBytes)).ret
                    = call'.ret]_vars

\* a valid bit vector validated again under a config of twice the bit size
C29_Witness ==
    /\ field.variant = "BitVector"
    /\ call.op = "GetFieldElement"
    /\ call.cfg.bitVectorSizeBits = 2 * SC_BV_SIZE_IN_BYTES * CHAR_BIT
    /\ call.stateBefore = "VALID"
    /\ call.validated
    /\ call.valid

(***************************************************************************)
(*                    Properties of the library checker                    *)
(***************************************************************************)
\* the five sizes of the library are the compiled-in ones
AllSizesMatch(lib) ==
    /\ lib.zendoo_get_field_size_in_bytes = SC_FIELD_SIZE
    /\ lib.zendoo_get_sc_vk_size_in_bytes = SC_VK_SIZE
    /\ lib.zendoo_get_sc_proof_size_in_bytes = SC_PROOF_SIZE
    /\ lib.zendoo_get_sc_bit_vector_size_in_bytes = SC_BV_SIZE_IN_BYTES
    /\ lib.zendoo_get_sc_custom_data_size_in_bytes = SC_CUSTOM_DATA_MAX_SIZE

\* C23: CheckTypeSizes aborts the process exactly when one of the five sizes
\* reported by the library differs from its compiled-in constant, and returns
\* normally when all five match.
C23_AbortsIffMismatch ==
    call.op = "CheckTypeSizes" => (aborted <=> ~AllSizesMatch(call.lib))

(***************************************************************************)
(*                        Properties of the configs                        *)
(***************************************************************************)
\* C24: FieldElementCertificateFieldConfig::IsValid is true exactly when
\* 0 < bitSize <= CFieldElement::BitSize(), and GetFieldElement called with a
\* config it accepted does not fail its bit-size assert.
C24_FeConfigIsValid ==
    [][ /\ call'.op = "FeCfgIsValid" =>
            (call'.ret <=> (0 < call'.cfg.nBits /\ call'.cfg.nBits <= BitSize))
        /\ (call.op = "FeCfgIsValid" /\ call.ret /\ call'.op = "GetFieldElement") =>
            (call'.cfg = call.cfg /\ ~aborted') ]_vars

\* GetFieldElement has validated with an accepted config of the largest bit size
C24_Witness ==
    /\ call.op = "GetFieldElement"
    /\ call.cfg = FeCfg(BitSize)
    /\ call.validated
    /\ call.valid
    /\ ~aborted

\* C25: BitVectorCertificateFieldConfig::IsValid is true exactly when
\* 0 < bitVectorSizeBits <= MAX_BIT_VECTOR_SIZE_BITS, bitVectorSizeBits is
\* divisible by 254 and by 8, and 0 < maxCompressedSizeBytes <=
\* MAX_COMPRESSED_SIZE_BYTES, for all int32_t arguments.
C25_BvConfigIsValid ==
    call.op = "BvCfgIsValid" =>
        (call.ret <=>
            /\ 0 < call.cfg.bitVectorSizeBits
            /\ call.cfg.bitVectorSizeBits <= MAX_BIT_VECTOR_SIZE_BITS
            /\ \E k \in 1..(MAX_BIT_VECTOR_SIZE_BITS \div 254) :
                  call.cfg.bitVectorSizeBits = 254 * k
            /\ \E k \in 1..(MAX_BIT_VECTOR_SIZE_BITS \div 8) :
                  call.cfg.bitVectorSizeBits = 8 * k
            /\ 0 < call.cfg.maxCompressedSizeBytes
            /\ call.cfg.maxCompressedSizeBytes <= MAX_COMPRESSED_SIZE_BYTES)

\* a config of two times 1016 bits and the largest compressed size was accepted
C25_Witness ==
    /\ call.op = "BvCfgIsValid"
    /\ call.cfg = BvCfg(2032, MAX_COMPRESSED_SIZE_BYTES)
    /\ call.ret

(***************************************************************************)
(*                Properties of the template cache, continued              *)
(***************************************************************************)
\* the mempool state a template was built from: the counter value at which
\* its transactions were selected
BuiltFrom(tmpl) == Len(tmpl.vtx) - 1

\* a construction succeeds in this step
BuildSucceeds(t) ==
    /\ pc[t] = "build"
    /\ pc'[t] = "idle"
    /\ ~pblocktemplate'.null

\* C31: the counter and the tip are captured before the template is
\* constructed: after a successful build the stored counter is the one
\* captured, it is not newer than the mempool state the template was built
\* from, and the stored tip is the tip captured, on which the template is
\* built.
C31_SnapshotsFirst ==
    [][\A t \in Threads : BuildSucceeds(t) =>
          /\ nTransactionsUpdatedLast' = nTransactionsUpdatedLast
          /\ nTransactionsUpdatedLast' <= BuiltFrom(pblocktemplate')
          /\ pindexPrev' = req[t].pindexPrevNew
          /\ pblocktemplate'.hashPrevBlock = pindexPrev']_vars

\* the mempool changed between the capture and the construction: the stored
\* counter is older than what the template was built from
C31_Witness ==
    /\ result.kind = "template"
    /\ result.built
    /\ nTransactionsUpdatedLast < BuiltFrom(pblocktemplate)
    /\ nTransactionsUpdatedLast < mempoolUpdated

(***************************************************************************)
(*                   Properties of the transactions array                  *)
(***************************************************************************)
\* the hashes a transaction entry's transaction spends from
SpentHashes(entry) ==
    LET vin == DecodeHexTx(entry.data).tx.vin
    IN  {vin[i] : i \in 1..Len(vin)}

\* C32: for the transaction at position p of transactions[], every entry d of
\* its depends list satisfies 1 <= d < p and names a transaction whose output
\* the transaction at p spends, and every earlier transaction of the list
\* whose output it spends is in depends.
C32_Depends ==
    result.kind = "transactions" =>
        \A p \in 1..Len(result.transactions) :
            LET entry == result.transactions[p]
            IN  /\ \A i \in 1..Len(entry.depends) :
                      /\ 1 <= entry.depends[i]
                      /\ entry.depends[i] < p
                      /\ result.transactions[entry.depends[i]].hash \in SpentHashes(entry)
                /\ \A q \in 1..(p - 1) :
                      result.transactions[q].hash \in SpentHashes(entry)
                          => \E i \in 1..Len(entry.depends) : entry.depends[i] = q

\* the third transaction spends outputs of the second and of the first
C32_Witness ==
    /\ result.kind = "transactions"
    /\ Len(result.transactions) = 3
    /\ result.transactions[3].depends = <<2, 1>>

(***************************************************************************)
(*                       Properties of the locking                         *)
(***************************************************************************)
\* a step of the handler that writes one of the statics (the passing of time
\* alone only ages the stored times)
CacheWritten ==
    \/ pindexPrev' # pindexPrev
    \/ nTransactionsUpdatedLast' # nTransactionsUpdatedLast
    \/ pblocktemplate'.null # pblocktemplate.null
    \/ pc' # pc /\ cacheVars' # cacheVars

\* C33: the statics are read and written only by a thread that holds cs_main
\* (a thread at the stale test or in the construction holds it, and a step
\* that writes a static is a step of the holder), and a thread that has left
\* getblocktemplate, by a return or by an error, does not hold cs_main.
C33_CacheUnderLock ==
    [][/\ \A t \in Threads : pc'[t] \in {"update", "build"} => csMain' = t
       /\ \A t \in Threads : pc'[t] = "idle" => csMain' # t
       /\ CacheWritten => \E t \in Threads : csMain = t /\ pc'[t] # pc[t]]_vars

\* a long-poll request has ended with the shutdown error, after another
\* request filled the statics, and cs_main is free
C33_Witness ==
    /\ result.kind = "error"
    /\ result.code = "RPC_CLIENT_NOT_CONNECTED_shutdown"
    /\ ~pblocktemplate.null
    /\ pindexPrev # NullIndex
    /\ csMain = NoThread

\* the thread t evaluates the condition of the wait loop, which reads the tip
TipReadInLoop(t) == pc[t] = "lp_test" /\ pc'[t] # "lp_test"

\* C34: every read of the tip made by the handler, the comparison of the wait
\* loop included, is made by a thread that holds cs_main.
C34_TipReadsUnderLock ==
    [][\A t \in Threads : TipReadInLoop(t) => csMain = t]_vars

(***************************************************************************)
(*                   Properties of copied custom fields                    *)
(***************************************************************************)
\* C35: after any sequence of constructions, copy constructions, copy
\* assignments and GetFieldElement and IsValid calls, an object whose state
\* is not NOT_INITIALIZED has a reference config, so that the assertion of
\* GetFieldElement holds.
C35_AssertHolds ==
    /\ field.state # "NOT_INITIALIZED" => field.pReferenceCfg # nullptr
    /\ ~aborted

\* the object has just been copy-constructed or copy-assigned and is asked
\* for its element
AskedAfterCopy ==
    /\ call.op \in {"copy", "operator="}
    /\ call'.op \in {"GetFieldElement", "IsValid"}

\* C36: a field that was copy-constructed or copy-assigned from another one
\* returns, for every config, what a freshly constructed field over the raw
\* data it now holds returns.
C36_CopyReturnsFresh ==
    [][AskedAfterCopy => call'.ret = FreshOutcome(field, call'.cfg).ret]_vars

(***************************************************************************)
(*                 Properties of the cached tip pointer                    *)
(***************************************************************************)
\* C37: after any sequence of calls, whether they succeeded, failed a
\* precondition, failed in the construction or were ended by the shutdown, a
\* non-null pindexPrev comes with a non-null pblocktemplate built on that
\* block, and no response is made from a null template.
C37_TipImpliesTemplate ==
    /\ pindexPrev # NullIndex =>
          /\ ~pblocktemplate.null
          /\ pblocktemplate.hashPrevBlock = pindexPrev
    /\ result.kind # "crash"

\* a request was ended by the shutdown after the tip moved on: the statics
\* still hold the block of the last construction and the template built on it
C37_Witness ==
    /\ result.kind = "error"
    /\ result.code = "RPC_CLIENT_NOT_CONNECTED_shutdown"
    /\ pindexPrev # NullIndex
    /\ pindexPrev # tip
    /\ pblocktemplate.hashPrevBlock = pindexPrev

(***************************************************************************)
(*                     Properties of the two locks                         *)
(***************************************************************************)
\* C38: a thread inside getblocktemplate never holds cs_main and csBestBlock
\* together; csBestBlock is taken only after cs_main was released and is
\* released before cs_main is taken again.
C38_NeverBothLocks ==
    \A t \in Threads : ~(csMain = t /\ csBestBlock = t)

\* a waiter holds csBestBlock while another request holds cs_main
C38_Witness ==
    /\ csBestBlock # NoThread
    /\ csMain # NoThread
    /\ csMain # csBestBlock

(***************************************************************************)
(*                     Progress of the long-poll wait                      *)
(***************************************************************************)
\* the thread t is in the wait loop of a long-poll request
Waiting(t) == pc[t] \in {"lp_test", "lp_wait"}

\* C39: if the tip differs from the hash a waiting request watches and stays
\* different, the request eventually leaves the wait and returns, whether or
\* not a notification of the tip change reaches it.
C39_WaitersLeave ==
    \A t \in LongPollThreads :
        (Waiting(t) /\ [](Waiting(t) => tip # req[t].hashWatchedChain))
            ~> (pc[t] = "idle")

\* a request waits for a tip that has already been replaced, and its
\* deadline has not passed
C39_Witness ==
    \E t \in LongPollThreads :
        /\ pc[t] = "lp_wait"
        /\ tip # req[t].hashWatchedChain
        /\ ~DeadlinePassed(GetTime, req[t].checktxtime)

(***************************************************************************)
(*             Properties of the mutable list, continued                   *)
(***************************************************************************)
\* C40: a template response that has a certificates array has "certificates"
\* in its mutable list, whatever requests were answered before it.
C40_CertificatesMutable ==
    (result.kind = "template" /\ result.hasCertificates)
        => \E i \in 1..Len(result.mutable) : result.mutable[i] = "certificates"

=============================================================================
